---- MODULE Spec2Model ----
(***************************************************************************)
(* Model of the wheel selection / linkage verification / install pipeline  *)
(* of pc-ble-driver-py: .tox_find_wheel.py (main pipeline),                *)
(* .tox_find_wheel_fallback.py (fallback pipeline), and of the tools that  *)
(* rewrite a wheel: bundle_into_wheel.py and fix_wheel_python_version.py,  *)
(* and of tools/patch_skbuild_constants.py.                                *)
(*                                                                         *)
(* Strings are sequences of tokens.  A token is a run of characters that   *)
(* no pattern of the code cuts in two; digits, "." and "-" are tokens of   *)
(* their own, so that substring tests on version numbers ("3.1" inside     *)
(* "3.10") behave on token sequences as they do on characters.             *)
(***************************************************************************)
EXTENDS Integers, Sequences, FiniteSets, TLC

VARIABLES
    \* ---- the pipeline run (either entry point) ----
    entry,          \* "main" (.tox_find_wheel.py) or "fallback" (.tox_find_wheel_fallback.py), "none" outside Spec
    pc,             \* position of the run inside main()
    runtime,        \* sys.version_info[:2] of the interpreter running the pipeline
    pvBound,        \* whether the free name python_version resolves inside main() of .tox_find_wheel.py
    useWheels,      \* os.getenv('TOX_USE_WHEELS','false').lower() == 'true'
    skipTest,       \* os.getenv('TOX_SKIP_WHEEL_TEST','').lower() == 'true'
    libDirExists,   \* os.path.exists('pc_ble_driver_py/lib')
    lib,            \* contents of pc_ble_driver_py/lib: file name -> content, or Absent
    dist,           \* the wheel files in dist/
    skbuild,        \* _skbuild/<dir>/cmake-install/pc_ble_driver_py/lib: dir -> (file name -> content) or Absent
    wheel,          \* local variable wheel of main()
    wheelSo,        \* the .so files of the extracted wheel (wheel_so_files)
    matching_dir,   \* local variable matching_dir of main()
    so_files,       \* the .so files of matching_dir still to be copied (loop of line 255)
    dest,           \* the file just copied by line 257, not yet verified
    installed,      \* what pip has installed in the environment
    exitCode,       \* process exit status once the run is over, else NoExit
    outcome,        \* "running", "done" (return 0), "aborted" (return non-zero), "crashed" (uncaught exception)
    stages,         \* stages this run has executed so far
    rejected,       \* <<where, library>> for each False that verify_so_python_version returned to main() in this run
    accepted,       \* the files of the library directory for which it returned True to main() in this run
    cleanResult,    \* what clean_lib_directory returned in this run, or "none"
    runs,           \* number of runs started
    foreign,        \* the library files another pipeline instance wrote into pc_ble_driver_py/lib during this run
    \* ---- verify_so_python_version as a function of its inputs ----
    vIn,            \* the inputs of one call
    vOut,           \* its result, or NoCall
    \* ---- clean_lib_directory as a function of the directory it is called on ----
    cExists, cDir,  \* the directory now
    cPrev,          \* the directory before the last call
    cRet,           \* what the last call returned
    cCalls,         \* number of calls made
    \* ---- find_wheel as a function of the listing of dist/ ----
    sWhich,         \* whose find_wheel: "main" (.tox_find_wheel.py) or "fallback"
    sDir,           \* the wheel files of dist/
    sVer, sArch,    \* sys.version_info[:2] and get_architecture() of the caller
    sRets,          \* what the calls made so far returned, in order
    \* ---- the search for the build directory (main(), lines 225-234) as a function ----
    mDirs,          \* the build directories under _skbuild/
    mVer,           \* the value of python_version
    mRet,           \* matching_dir after the loop, per call made so far
    \* ---- bundle_dependencies (bundle_into_wheel.py) ----
    bPc,            \* position inside bundle_dependencies, "idle" between calls
    wheel_file,     \* the file at wheel_path
    backup_file,    \* the file at wheel_path + ".backup"
    temp_dir,       \* the scratch directory of the call, or NoTemp
    existing_libs,  \* local variable existing_libs: the dependency files found in VCPKG_LIB_DIR
    bPrev,          \* when the last call started: wheel_file, backup_file, the dependency files in VCPKG_LIB_DIR
    bPristine,      \* wheel_file before the first call
    bRets,          \* how the calls made so far ended: "True", "False" or "raised"
    \* ---- fix_wheel (fix_wheel_python_version.py), on the same wheel ----
    gPc,            \* position inside fix_wheel, "idle" between calls
    gPrev,          \* when the last call started: wheel_file, backup_file
    gLast,          \* what fix_so_file did on each library in the last call
    gRets,          \* how the calls made so far ended: "nochange" (line 67), "fixed" (line 88) or "raised"
    \* ---- tools/patch_skbuild_constants.py ----
    constants_py,   \* the file <purelib>/skbuild/constants.py: its text, or Missing
    kPrev,          \* the file before the last run of the tool
    kRets           \* what the runs made so far did: "missing", "patched", "noop", "notfound" or "error"

pipeVars == <<entry, pc, runtime, pvBound, useWheels, skipTest, libDirExists, lib, dist,
              skbuild, wheel, wheelSo, matching_dir, so_files, dest, installed, exitCode,
              outcome, stages, rejected, accepted, cleanResult, runs, foreign>>
verifyVars == <<vIn, vOut>>
cleanVars == <<cExists, cDir, cPrev, cRet, cCalls>>
selectVars == <<sWhich, sDir, sVer, sArch, sRets>>
matchVars == <<mDirs, mVer, mRet>>
fixVars == <<gPc, gPrev, gLast, gRets>>
bundleVars == <<bPc, wheel_file, backup_file, temp_dir, existing_libs, bPrev, bPristine, bRets, fixVars>>
constVars == <<constants_py, kPrev, kRets>>
unitVars == <<verifyVars, cleanVars, selectVars, matchVars, bundleVars, constVars>>
\* what bundle_dependencies does not touch
notBundleVars == <<pipeVars, verifyVars, cleanVars, selectVars, matchVars, fixVars, constVars>>
vars == <<pipeVars, unitVars>>

----------------------------------------------------------------------------
(* Bounds of the model *)

\* number of dependency-table entries of a library in the verifier's own specification
MaxRefs == 2
\* number of pipeline runs made one after the other on the same directories
MaxRuns == 2
\* number of files whose removal fails during one call of clean_lib_directory
MaxRemoveFailures == 1
\* number of calls of clean_lib_directory made one after the other
MaxCleanCalls == 2
\* number of wheel files in dist/ in the selector's own specification
MaxWheels == 3
\* number of calls of find_wheel made one after the other on the same dist/
MaxSelectCalls == 2
\* number of build directories under _skbuild/ in the matcher's own specification
MaxBuildDirs == 3
\* number of searches made one after the other over the same _skbuild/
MaxMatchCalls == 2
\* number of calls of bundle_dependencies and fix_wheel made one after the other on the same wheel
MaxBundleCalls == 2

----------------------------------------------------------------------------
(* Strings *)

\* Python's None where the model holds a string
None == <<>>
\* exitCode while the run is not over
NoExit == -1

DigitChar == <<"0", "1", "2", "3", "4", "5", "6", "7", "8", "9">>

\* str(n) for a natural number n
RECURSIVE Digits(_)
Digits(n) == IF n < 10 THEN <<DigitChar[n + 1]>> ELSE Digits(n \div 10) \o <<DigitChar[(n % 10) + 1]>>

\* Python's  p in s  on strings
Contains(s, p) == \E i \in 0..(Len(s) - Len(p)) : SubSeq(s, i + 1, i + Len(p)) = p

\* s.split('\n')
RECURSIVE SplitLines(_)
SplitLines(s) ==
    IF \A i \in 1..Len(s) : s[i] # "\n"
    THEN <<s>>
    ELSE LET k == CHOOSE i \in 1..Len(s) : s[i] = "\n" /\ \A j \in 1..(i - 1) : s[j] # "\n"
         IN  <<SubSeq(s, 1, k - 1)>> \o SplitLines(SubSeq(s, k + 1, Len(s)))

\* the concatenation of a sequence of strings
RECURSIVE Concat(_)
Concat(ss) == IF ss = <<>> THEN <<>> ELSE Head(ss) \o Concat(Tail(ss))

\* f"{sys.version_info.major}.{sys.version_info.minor}"
VersionStr(v) == Digits(v[1]) \o <<".">> \o Digits(v[2])

\* all sequences over S of length at most n
SeqUpTo(S, n) == UNION {[1..k -> S] : k \in 0..n}

----------------------------------------------------------------------------
(* Dependency tables and the inspection tool *)

V3_1 == <<3, 1>>
V3_10 == <<3, 10>>
V3_12 == <<3, 12>>
\* the runtime versions libraries are linked against
LinkVersions == {V3_1, V3_10, V3_12}

\* a versioned runtime library name
RefLibPython(v) == <<"@rpath/", "libpython">> \o VersionStr(v) \o <<".dylib">>
\* a runtime framework path
RefFramework(v) == <<"/Library/Frameworks/", "Python.framework", "/Versions/">> \o VersionStr(v) \o <<"/Python">>
\* references that name no runtime version
RefSystem == <<"/usr/lib/", "libSystem.B.dylib">>
RefGeneric == <<"@rpath/", "Python">>

RuntimeRefs == {RefLibPython(v) : v \in LinkVersions} \cup {RefFramework(v) : v \in LinkVersions}
OtherRefs == {RefSystem, RefGeneric}
Refs == RuntimeRefs \cup OtherRefs

\* the version a runtime reference names
RefNames(r, v) == r = RefLibPython(v) \/ r = RefFramework(v)

\* stdout of  otool -L so_file : the file's own line, then one line per
\* dependency-table entry
OtoolStdout(so_file, deps) ==
    so_file \o <<":", "\n">>
    \o Concat([i \in 1..Len(deps) |-> <<"\t">> \o deps[i] \o <<" (compatibility version)", "\n">>])

\* what subprocess.run(['otool', '-L', so_file], capture_output=True, text=True,
\* check=True) can do: return, or raise one of these
ToolFailures == {"FileNotFoundError", "CalledProcessError", "UnicodeDecodeError"}
ToolKinds == {"ok"} \cup ToolFailures

----------------------------------------------------------------------------
(* verify_so_python_version *)

\* expected_lib = f"libpython{expected_version}.dylib"
ExpectedLib(expected_version) == <<"libpython">> \o expected_version \o <<".dylib">>
\* f"Python.framework/Versions/{expected_version}"
ExpectedFramework(expected_version) == <<"Python.framework", "/Versions/">> \o expected_version

\* the test of line 98
ExpectedFound(stdout, expected_version) ==
    \/ Contains(stdout, ExpectedLib(expected_version))
    \/ Contains(stdout, ExpectedFramework(expected_version))

\* faulty variant: any mention of Python counts as a runtime reference
IsPythonLine_AnyPython(line) ==
    \/ Contains(line, <<"libpython">>) \/ Contains(line, <<"Python.framework">>)
    \/ Contains(line, <<"Python">>)

\* the test of line 102
IsPythonLine(line) == Contains(line, <<"libpython">>) \/ Contains(line, <<"Python.framework">>)

\* faulty variant: except subprocess.CalledProcessError
Caught_OnlyCalledProcessError(exc) == exc = "CalledProcessError"

\* the exceptions that  except Exception  of line 108 catches
Caught(exc) == exc \in ToolFailures

\* The call verify_so_python_version(so_file, expected_version), given what the
\* inspection tool does (kind) on a library with dependency table deps.
\*   ret    the value returned (True accepts, False rejects)
\*   via    the return statement taken: "expected" (line 99), "wrong" (line 106),
\*          "nopython" (line 107), "except" (line 110)
\*   warned whether a "Could not verify" warning was printed (line 109)
\*   raised whether the call ended by an exception instead of returning
verify_so_python_version(so_file, deps, expected_version, kind) ==
    IF kind # "ok"
    THEN IF Caught(kind)
         THEN [ret |-> TRUE, via |-> "except", warned |-> TRUE, raised |-> FALSE]
         ELSE [ret |-> FALSE, via |-> "raise", warned |-> FALSE, raised |-> TRUE]
    ELSE LET stdout == OtoolStdout(so_file, deps)
             lines == SplitLines(stdout)
         IN  IF ExpectedFound(stdout, expected_version)
             THEN [ret |-> TRUE, via |-> "expected", warned |-> FALSE, raised |-> FALSE]
             ELSE IF \E i \in 1..Len(lines) : IsPythonLine(lines[i])
                  THEN [ret |-> FALSE, via |-> "wrong", warned |-> FALSE, raised |-> FALSE]
                  ELSE [ret |-> TRUE, via |-> "nopython", warned |-> FALSE, raised |-> FALSE]

\* The three-valued result of the specification, read off the return statement
VerificationResult(r) ==
    CASE r.via = "expected" -> "MATCH"
      [] r.via = "wrong" -> "MISMATCH"
      [] r.via \in {"nopython", "except"} -> "INCONCLUSIVE"
      [] OTHER -> "RAISED"

----------------------------------------------------------------------------
(* Files of the pipeline *)

\* a file name is <<stem, extension>>
SoNames == {<<"_nrf_ble_driver_sd_api_v2", ".so">>, <<"_nrf_ble_driver_sd_api_v5", ".so">>}
\* the list of lines 137 and 276
WrapperNames == {<<"nrf_ble_driver_sd_api_v2", ".py">>, <<"nrf_ble_driver_sd_api_v5", ".py">>, <<"__init__", ".py">>}
\* entries of the library directory that are neither: the deps directory, another module
OtherNames == {<<"deps", "">>, <<"config", ".py">>}
LibNames == SoNames \cup WrapperNames \cup OtherNames

\* the runtime versions the pipeline is run with
PipeVersions == {V3_10, V3_12}
\* contents of a file; a native library's content is its dependency table
Absent == [kind |-> "absent", deps |-> <<>>]
LinkedTo(v) == [kind |-> "so", deps |-> <<RefSystem, RefLibPython(v)>>]
Static == [kind |-> "so", deps |-> <<RefSystem>>]
LibContents == {LinkedTo(v) : v \in PipeVersions} \cup {Static}
PyContent == [kind |-> "py", deps |-> <<>>]
OtherContent == [kind |-> "other", deps |-> <<>>]

\* glob.glob(os.path.join(dir, '*.so')) resp. '*.py' over the names of a directory
GlobSo(files) == {n \in DOMAIN files : files[n] # Absent /\ n[2] = ".so"}
GlobPy(files) == {n \in DOMAIN files : files[n] # Absent /\ n[2] = ".py"}

EmptyDir == [n \in LibNames |-> Absent]
\* a library directory holding only the entries the pipeline does not own
CleanDir == [n \in LibNames |-> IF n \in OtherNames THEN OtherContent ELSE Absent]
\* a library directory as a build for version v leaves it
StaleDir(v) == [n \in LibNames |->
                  IF n \in SoNames THEN LinkedTo(v)
                  ELSE IF n \in WrapperNames THEN PyContent ELSE OtherContent]

\* 'pc_ble_driver_py/lib/<name>'
LibDirFile(n) == <<"pc_ble_driver_py/lib/">> \o n

\* what the inspection tool can do during a pipeline run
PipeToolKinds == {"ok", "CalledProcessError"}

----------------------------------------------------------------------------
(* clean_lib_directory *)

\* faulty variant: the scan after the removals is left out
clean_lib_directory_NoRescan(exists, files, failSo, failPy) ==
    IF ~exists
    THEN [files |-> EmptyDir, ret |-> TRUE]
    ELSE LET old_so_files == GlobSo(files)
             after_so == [n \in LibNames |->
                            IF n \in old_so_files /\ n \notin failSo THEN Absent ELSE files[n]]
             old_py_files == {n \in GlobPy(after_so) : n \in WrapperNames}
             after_py == [n \in LibNames |->
                            IF n \in old_py_files /\ n \notin failPy THEN Absent ELSE after_so[n]]
         IN  [files |-> after_py, ret |-> TRUE]

\* faulty variant: every *.py file is removed, not only the wrapper modules
clean_lib_directory_AllPy(exists, files, failSo, failPy) ==
    IF ~exists
    THEN [files |-> EmptyDir, ret |-> TRUE]
    ELSE LET old_so_files == GlobSo(files)
             after_so == [n \in LibNames |->
                            IF n \in old_so_files /\ n \notin failSo THEN Absent ELSE files[n]]
             old_py_files == GlobPy(after_so)
             after_py == [n \in LibNames |->
                            IF n \in old_py_files /\ n \notin failPy THEN Absent ELSE after_so[n]]
             remaining_so == GlobSo(after_py)
         IN  [files |-> after_py, ret |-> (remaining_so = {})]

\* The call clean_lib_directory(): exists and files are the library directory
\* before the call, failSo and failPy the files whose os.remove raises (lines
\* 132, 144).  Returns the directory after the call and the value returned.
\* verify_so_python_version is called on each old .so file (line 127) only to
\* choose a message; it cannot raise (Caught) and changes nothing.
clean_lib_directory(exists, files, failSo, failPy) ==
    IF ~exists
    THEN [files |-> EmptyDir, ret |-> TRUE]
    ELSE LET old_so_files == GlobSo(files)
             after_so == [n \in LibNames |->
                            IF n \in old_so_files /\ n \notin failSo THEN Absent ELSE files[n]]
             old_py_files == {n \in GlobPy(after_so) : n \in WrapperNames}
             after_py == [n \in LibNames |->
                            IF n \in old_py_files /\ n \notin failPy THEN Absent ELSE after_so[n]]
             remaining_so == GlobSo(after_py)
         IN  [files |-> after_py, ret |-> (remaining_so = {})]

\* cleanResult for a value returned by clean_lib_directory
CleanOutcome(ret) == IF ret THEN "success" ELSE "failure"

----------------------------------------------------------------------------
(* A pipeline run: start and end *)

\* return code from main(): sys.exit(code)
Return(code) ==
    /\ pc' = "exit"
    /\ exitCode' = code
    /\ outcome' = IF code = 0 THEN "done" ELSE "aborted"

\* an exception nobody catches leaves main(): traceback, exit status 1
Crash ==
    /\ pc' = "exit"
    /\ exitCode' = 1
    /\ outcome' = "crashed"

\* python_version as main() of .tox_find_wheel.py sees it.  The module binds
\* the name only inside clean_lib_directory (line 115); in main() it is a
\* free name looked up in the module's globals when the line is executed.
python_version == IF pvBound THEN VersionStr(runtime) ELSE None

StartRun ==
    /\ pc \in {"idle", "exit"}
    /\ runs < MaxRuns
    /\ runs' = runs + 1
    /\ entry' \in {"main", "fallback"}
    /\ runtime' \in PipeVersions
    /\ \/ entry' = "main" /\ useWheels' \in BOOLEAN /\ skipTest' = FALSE /\ pc' = "clean"
       \/ entry' = "fallback" /\ skipTest' \in BOOLEAN /\ useWheels' = FALSE /\ pc' = "f_select"
    /\ wheel' = None /\ wheelSo' = EmptyDir /\ matching_dir' = None /\ so_files' = {}
    /\ dest' = None /\ exitCode' = NoExit /\ outcome' = "running" /\ stages' = {}
    /\ rejected' = {} /\ accepted' = {} /\ cleanResult' = "none" /\ foreign' = {}
    /\ UNCHANGED <<pvBound, libDirExists, lib, dist, skbuild, installed, unitVars>>

\* main(), lines 160-165
M_Clean ==
    /\ entry = "main" /\ pc = "clean"
    /\ \E failSo \in SUBSET GlobSo(lib), failPy \in SUBSET (GlobPy(lib) \cap WrapperNames) :
         /\ Cardinality(failSo \cup failPy) <= MaxRemoveFailures
         /\ LET r == clean_lib_directory(libDirExists, lib, failSo, failPy)
            IN  /\ libDirExists' = TRUE
                /\ lib' = r.files
                /\ cleanResult' = CleanOutcome(r.ret)
                /\ stages' = stages \cup {"sanitize"}
                /\ IF r.ret
                   THEN pc' = "select" /\ UNCHANGED <<exitCode, outcome>>
                   ELSE Return(1)
    /\ UNCHANGED <<entry, runtime, pvBound, useWheels, skipTest, dist, skbuild, wheel, wheelSo,
                   matching_dir, so_files, dest, installed, rejected, accepted, runs, foreign,
                   unitVars>>

----------------------------------------------------------------------------
(* find_wheel *)

\* f"cp{major}{minor}"
get_python_tag(v) == <<"cp">> \o Digits(v[1]) \o Digits(v[2])

\* int(s) for a string of digits
RECURSIVE ParseInt(_)
ParseInt(s) ==
    IF s = <<>> THEN 0
    ELSE 10 * ParseInt(SubSeq(s, 1, Len(s) - 1))
         + ((CHOOSE d \in 1..10 : DigitChar[d] = s[Len(s)]) - 1)

\* fnmatch of a file name against a pattern whose "*" tokens are wildcards
RECURSIVE GlobMatch(_, _)
GlobMatch(p, s) ==
    IF p = <<>> THEN s = <<>>
    ELSE IF Head(p) = "*"
         THEN GlobMatch(Tail(p), s) \/ (s # <<>> /\ GlobMatch(p, Tail(s)))
         ELSE s # <<>> /\ Head(s) = Head(p) /\ GlobMatch(Tail(p), Tail(s))

\* the fallback tag of line 54
StableAbiTagNum == 38

\* faulty variant: the two rules for bundled wheels are missing
Patterns_NoBundledRules(python_tag, arch) ==
    <<  <<"*">> \o python_tag \o <<"-abi3-", "*", ".whl">>,
        <<"*">> \o python_tag \o <<"-abi3-", "*", ".whl">>,
        <<"*">> \o python_tag \o <<"-abi3-", "*", ".whl">>,
        <<"*", "universal", "*", ".whl">>,
        <<"*", arch, "*", ".whl">>,
        <<"*", ".whl">> >>

\* patterns of find_wheel of .tox_find_wheel.py, lines 39-69 (without the dist/ prefix)
Patterns(python_tag, arch) ==
    <<  <<"*">> \o python_tag \o <<"-abi3-", "*", arch, "*", "_bundled", ".whl">>,
        <<"*">> \o python_tag \o <<"-abi3-", "*", "_bundled", ".whl">>,
        <<"*">> \o python_tag \o <<"-abi3-", "*", ".whl">> >>
    \o (IF ParseInt(Tail(python_tag)) >= StableAbiTagNum
        THEN << <<"*", "cp", "3", "8", "-abi3-", "*", ".whl">> >>
        ELSE <<>>)
    \o << <<"*", "universal", "*", ".whl">>,
          <<"*", "universal", "2", "*", ".whl">>,
          <<"*">> \o python_tag \o <<"-abi3-", "*", arch, "*", ".whl">>,
          <<"*", arch, "*", ".whl">>,
          <<"*">> \o python_tag \o <<"*", ".whl">>,
          <<"*", ".whl">> >>

\* patterns of find_wheel of .tox_find_wheel_fallback.py, lines 31-39
FallbackPatterns(python_tag, arch) ==
    <<  <<"*">> \o python_tag \o <<"-abi3-", "*", ".whl">>,
        <<"*", "universal", "*", ".whl">>,
        <<"*", "universal", "2", "*", ".whl">>,
        <<"*">> \o python_tag \o <<"-abi3-", "*", arch, "*", ".whl">>,
        <<"*", arch, "*", ".whl">>,
        <<"*">> \o python_tag \o <<"*", ".whl">>,
        <<"*", ".whl">> >>

\* The loop of lines 71-84 (41-53 in the fallback): the wheels the loop can
\* return over the directory listing d.  glob.glob yields the matches of a
\* pattern in the order the directory enumerates them, which the code does not
\* fix, so [0] is any of them.
RECURSIVE FirstMatch(_, _, _)
FirstMatch(patterns, d, python_tag) ==
    IF patterns = <<>> THEN {None}
    ELSE LET wheels == {w \in d : GlobMatch(Head(patterns), w)}
             exact_matches == {w \in wheels : Contains(w, python_tag)}
         IN  IF wheels # {}
             THEN IF exact_matches # {} THEN exact_matches ELSE wheels
             ELSE FirstMatch(Tail(patterns), d, python_tag)

find_wheel(d, v, arch) == FirstMatch(Patterns(get_python_tag(v), arch), d, get_python_tag(v))
find_wheel_fallback(d, v, arch) ==
    FirstMatch(FallbackPatterns(get_python_tag(v), arch), d, get_python_tag(v))

\* a wheel file name: <name>-<version>-<runtime tag>-abi3-<platform>_<arch>[_bundled].whl
WheelName(v, arch, bundled) ==
    <<"pc_ble_driver_py-0.17.0-">> \o get_python_tag(v) \o <<"-abi3-", "macosx_11_0_", arch>>
    \o (IF bundled THEN <<"_bundled">> ELSE <<>>) \o <<".whl">>

\* get_architecture() of the machine the pipeline runs on
PipeArch == "arm64"

\* the listings of dist/ the pipeline is run on
DistChoices ==
    { {},
      {WheelName(V3_12, "arm64", TRUE), WheelName(V3_12, "arm64", FALSE)},
      {WheelName(V3_10, "arm64", FALSE)} }

\* the .so files of pc_ble_driver_py/lib inside a wheel
WheelLinked(v) == [n \in LibNames |-> IF n \in SoNames THEN LinkedTo(v) ELSE Absent]
WheelContents == {EmptyDir} \cup {WheelLinked(v) : v \in PipeVersions}

\* The same loop on one enumeration of dist/: listing is the wheel files in the
\* order the directory yields them, glob.glob(pattern) is the sub-sequence of
\* the files the pattern matches, [0] its first element.
RECURSIVE FirstMatchIn(_, _, _)
FirstMatchIn(patterns, listing, python_tag) ==
    IF patterns = <<>> THEN None
    ELSE LET wheels == SelectSeq(listing, LAMBDA w : GlobMatch(Head(patterns), w))
             exact_matches == SelectSeq(wheels, LAMBDA w : Contains(w, python_tag))
         IN  IF wheels # <<>>
             THEN IF exact_matches # <<>> THEN exact_matches[1] ELSE wheels[1]
             ELSE FirstMatchIn(Tail(patterns), listing, python_tag)

\* the pattern list of the two scripts
PatternsOf(which, python_tag, arch) ==
    IF which = "main" THEN Patterns(python_tag, arch) ELSE FallbackPatterns(python_tag, arch)

\* find_wheel() of script which, on one enumeration of dist/
find_wheel_in(which, listing, v, arch) ==
    FirstMatchIn(PatternsOf(which, get_python_tag(v), arch), listing, get_python_tag(v))

\* the orders in which a directory can yield its entries
Enumerations(d) ==
    {l \in [1..Cardinality(d) -> d] : \A i, j \in 1..Cardinality(d) : l[i] = l[j] => i = j}

\* the runtime of the stable-ABI tag cp38
V3_8 == <<3, 8>>
SelectArchs == {"arm64", "x86_64"}

\* a wheel for both architectures
UniversalName(v) ==
    <<"pc_ble_driver_py-0.17.0-">> \o get_python_tag(v) \o <<"-abi3-", "macosx_11_0_", "universal", "2", ".whl">>

\* the ABI tag of a wheel built without the stable ABI: the runtime tag again
AbiMarker(v) == IF v = V3_12 THEN "-cp312-" ELSE IF v = V3_10 THEN "-cp310-" ELSE "-cp38-"
\* <name>-<version>-<runtime tag>-<runtime tag>-<platform>_<arch>.whl
VersionAbiName(v, arch) ==
    <<"pc_ble_driver_py-0.17.0-">> \o get_python_tag(v) \o <<AbiMarker(v), "macosx_11_0_", arch, ".whl">>

\* the wheel files dist/ is made of in the selector's own specification
WheelNames ==
    {WheelName(V3_12, a, b) : a \in SelectArchs, b \in BOOLEAN}
    \cup {WheelName(V3_10, "arm64", b) : b \in BOOLEAN}
    \cup {WheelName(V3_8, a, FALSE) : a \in SelectArchs}
    \cup {UniversalName(V3_12), VersionAbiName(V3_12, "arm64")}

\* the tokens at which two wheel file names can differ, in the order of their
\* first differing character ('-a' < '-c' < '.' < digits < '_' < letters)
TokenOrder ==
    <<"-abi3-", "-cp310-", "-cp312-", "-cp38-", ".whl", "0", "1", "2", "3", "8",
      "_bundled", "arm64", "universal", "x86_64">>
TokenRank(t) == CHOOSE i \in 1..Len(TokenOrder) : TokenOrder[i] = t

\* a < b for two file names, as Python compares strings
LexLess(a, b) ==
    \E i \in 1..Len(b) :
        /\ \A j \in 1..(i - 1) : j <= Len(a) /\ a[j] = b[j]
        /\ \/ i = Len(a) + 1
           \/ i <= Len(a) /\ a[i] # b[i] /\ TokenRank(a[i]) < TokenRank(b[i])

----------------------------------------------------------------------------
(* Build output *)

\* '_skbuild/<platform>-<version>/cmake-install/pc_ble_driver_py/lib'
BuildDirPath(v) ==
    <<"_skbuild/", "macosx-26.0-arm64", "-">> \o VersionStr(v) \o <<"/cmake-install/pc_ble_driver_py/lib">>
BuildDirs == {BuildDirPath(v) : v \in PipeVersions}

NoDir == [exists |-> FALSE, files |-> EmptyDir]
NoBuilds == [d \in BuildDirs |-> NoDir]

OtherVersion(v) == CHOOSE w \in PipeVersions : w # v

\* what  setup.py build  can leave in the build directory of version v: every
\* library linked to v; one library linked to another runtime; no library
BuildGood(v) ==
    [exists |-> TRUE,
     files |-> [n \in LibNames |-> IF n \in SoNames THEN LinkedTo(v)
                                   ELSE IF n \in WrapperNames THEN PyContent ELSE Absent]]
BuildMixed(v) ==
    [exists |-> TRUE,
     files |-> [n \in LibNames |-> IF n = <<"_nrf_ble_driver_sd_api_v2", ".so">> THEN LinkedTo(v)
                                   ELSE IF n \in SoNames THEN LinkedTo(OtherVersion(v))
                                   ELSE IF n \in WrapperNames THEN PyContent ELSE Absent]]
BuildNoSo ==
    [exists |-> TRUE,
     files |-> [n \in LibNames |-> IF n \in WrapperNames THEN PyContent ELSE Absent]]
BuildOutputs(v) == {BuildGood(v), BuildMixed(v), BuildNoSo}

\* glob.glob('_skbuild/*/cmake-install/pc_ble_driver_py/lib')
GlobBuildDirs(sk) == {d \in DOMAIN sk : sk[d].exists}

\* faulty variant: any build directory will do
DirMatches_Any(build_dir, pv) == Len(build_dir) > 0

\* the test of lines 231-232 on one build directory
VersionPattern(pv) == <<"-">> \o pv
DirMatches(build_dir, pv) == Contains(build_dir, VersionPattern(pv))

\* the loop of lines 226-234 over build_dirs in the order glob.glob returned
\* them: the first directory the test accepts, or None
RECURSIVE MatchingDirIn(_, _)
MatchingDirIn(build_dirs, pv) ==
    IF build_dirs = <<>> THEN None
    ELSE IF DirMatches(Head(build_dirs), pv) THEN Head(build_dirs)
         ELSE MatchingDirIn(Tail(build_dirs), pv)

\* '_skbuild/<platform>-<version>/cmake-install/pc_ble_driver_py/lib' for the
\* platforms and versions of the matcher's own specification
BuildPlatforms == {"macosx-26.0-arm64", "macosx-11.0-x86_64"}
BuildDirOf(platform, v) ==
    <<"_skbuild/", platform, "-">> \o VersionStr(v) \o <<"/cmake-install/pc_ble_driver_py/lib">>
AllBuildDirs == {BuildDirOf(pl, v) : pl \in BuildPlatforms, v \in LinkVersions}

----------------------------------------------------------------------------
(* main() of .tox_find_wheel.py *)

\* what a run does not change
runEnv == <<entry, runtime, pvBound, useWheels, skipTest, dist, runs, foreign, unitVars>>

\* the files of a set the verifier rejects, given what the tool does on each
Rejects(dir, files, names, pv, kinds) ==
    {n \in names : ~verify_so_python_version(dir \o n, files[n].deps, pv, kinds[n]).ret}

\* faulty variant: the wheel is looked for whatever TOX_USE_WHEELS says
M_Select_Always ==
    /\ entry = "main" /\ pc = "select"
    /\ wheel' \in find_wheel(dist, runtime, PipeArch)
    /\ stages' = stages \cup {"select"}
    /\ pc' = IF wheel' # None THEN "verify_wheel" ELSE "build"
    /\ UNCHANGED <<runEnv, libDirExists, lib, skbuild, wheelSo, matching_dir, so_files, dest,
                   installed, exitCode, outcome, rejected, accepted, cleanResult>>

\* lines 167-175 and 204-210
M_Select ==
    /\ entry = "main" /\ pc = "select"
    /\ IF useWheels
       THEN /\ wheel' \in find_wheel(dist, runtime, PipeArch)
            /\ stages' = stages \cup {"select"}
            /\ pc' = IF wheel' # None THEN "verify_wheel" ELSE "build"
       ELSE /\ pc' = "build"
            /\ UNCHANGED <<wheel, stages>>
    /\ UNCHANGED <<runEnv, libDirExists, lib, skbuild, wheelSo, matching_dir, so_files, dest,
                   installed, exitCode, outcome, rejected, accepted, cleanResult>>

\* lines 176-196: extract the wheel, verify its libraries
M_VerifyWheel ==
    /\ entry = "main" /\ pc = "verify_wheel"
    /\ wheelSo' \in WheelContents
    /\ IF GlobSo(wheelSo') = {}
       THEN /\ pc' = "install_wheel"
            /\ UNCHANGED <<rejected, stages, exitCode, outcome>>
       ELSE IF ~pvBound
            THEN Crash /\ UNCHANGED <<rejected, stages>>          \* NameError, line 188
            ELSE \E kinds \in [GlobSo(wheelSo') -> PipeToolKinds] :
                   LET bad == Rejects(<<"tmpdir/pc_ble_driver_py/lib/">>, wheelSo', GlobSo(wheelSo'),
                                      python_version, kinds)
                   IN  /\ stages' = stages \cup {"verify_wheel"}
                       /\ UNCHANGED <<exitCode, outcome>>
                       /\ IF bad = {}
                          THEN pc' = "install_wheel" /\ UNCHANGED rejected
                          ELSE /\ pc' = "build"                    \* wheel_ok = False: fall through
                               /\ \E n \in bad : rejected' = rejected \cup {<<"wheel", n>>}
    /\ UNCHANGED <<runEnv, libDirExists, lib, skbuild, wheel, matching_dir, so_files, dest,
                   installed, accepted, cleanResult>>

\* lines 198-203: pip install --force-reinstall --no-deps wheel
M_InstallWheel ==
    /\ entry = "main" /\ pc = "install_wheel"
    /\ stages' = stages \cup {"install_wheel"}
    /\ \E returncode \in {0, 1} :
         IF returncode = 0
         THEN /\ installed' = wheel
              /\ IF pvBound THEN Return(0) ELSE Crash              \* NameError, line 202
         ELSE /\ UNCHANGED installed
              /\ Return(returncode)
    /\ UNCHANGED <<runEnv, libDirExists, lib, skbuild, wheel, wheelSo, matching_dir, so_files,
                   dest, rejected, accepted, cleanResult>>

\* lines 212-217: setup.py build
M_Build ==
    /\ entry = "main" /\ pc = "build"
    /\ stages' = stages \cup {"build"}
    /\ \E returncode \in {0, 1} :
         IF returncode # 0
         THEN Return(returncode) /\ UNCHANGED skbuild
         ELSE /\ \E out \in BuildOutputs(runtime) \cup {skbuild[BuildDirPath(runtime)]} :
                   skbuild' = [skbuild EXCEPT ![BuildDirPath(runtime)] = out]
              /\ pc' = "match"
              /\ UNCHANGED <<exitCode, outcome>>
    /\ UNCHANGED <<runEnv, libDirExists, lib, wheel, wheelSo, matching_dir, so_files, dest,
                   installed, rejected, accepted, cleanResult>>

\* lines 219-253 and 305-307: find the build directory of this runtime, check
\* that the library directory is still clean, list the libraries to copy
M_Match ==
    /\ entry = "main" /\ pc = "match"
    /\ stages' = stages \cup {"match"}
    /\ LET build_dirs == GlobBuildDirs(skbuild)
           matches == {d \in build_dirs : DirMatches(d, python_version)}
       IN  IF ~pvBound
           THEN Crash /\ UNCHANGED <<matching_dir, so_files>>      \* NameError, line 231 or 306
           ELSE IF matches = {}
                THEN Return(1) /\ UNCHANGED <<matching_dir, so_files>>   \* line 242 or 307
                ELSE /\ matching_dir' \in matches
                     /\ IF GlobSo(lib) # {}
                        THEN Return(1) /\ UNCHANGED so_files       \* line 249
                        ELSE /\ so_files' = GlobSo(skbuild[matching_dir'].files)
                             /\ pc' = IF so_files' # {} THEN "copy" ELSE "wrappers"
                             /\ UNCHANGED <<exitCode, outcome>>
    /\ UNCHANGED <<runEnv, libDirExists, lib, skbuild, wheel, wheelSo, dest, installed,
                   rejected, accepted, cleanResult>>

\* lines 255-257: copy one library of the build directory
M_CopySo ==
    /\ entry = "main" /\ pc = "copy"
    /\ \E so_file \in so_files :
         /\ lib' = [lib EXCEPT ![so_file] = skbuild[matching_dir].files[so_file]]
         /\ dest' = so_file
         /\ so_files' = so_files \ {so_file}
    /\ stages' = stages \cup {"copy"}
    /\ pc' = "verify_copied"
    /\ UNCHANGED <<runEnv, libDirExists, skbuild, wheel, wheelSo, matching_dir, installed,
                   exitCode, outcome, rejected, accepted, cleanResult>>

\* faulty variant: the return of line 267 is missing
M_VerifyCopied_NoReturn ==
    /\ entry = "main" /\ pc = "verify_copied"
    /\ \E kind \in PipeToolKinds :
         IF verify_so_python_version(LibDirFile(dest), lib[dest].deps, python_version, kind).ret
         THEN /\ accepted' = accepted \cup {dest}
              /\ UNCHANGED <<lib, rejected>>
         ELSE /\ rejected' = rejected \cup {<<"copied", dest>>}
              /\ UNCHANGED accepted
              /\ \E removed \in BOOLEAN :
                   lib' = IF removed THEN [lib EXCEPT ![dest] = Absent] ELSE lib
    /\ pc' = IF so_files # {} THEN "copy" ELSE "wrappers"
    /\ dest' = None
    /\ UNCHANGED <<runEnv, libDirExists, skbuild, wheel, wheelSo, matching_dir, so_files,
                   installed, stages, cleanResult, exitCode, outcome>>

\* lines 258-268: verify the copy, remove it and abort when it is rejected
M_VerifyCopied ==
    /\ entry = "main" /\ pc = "verify_copied"
    /\ \E kind \in PipeToolKinds :
         IF verify_so_python_version(LibDirFile(dest), lib[dest].deps, python_version, kind).ret
         THEN /\ pc' = IF so_files # {} THEN "copy" ELSE "wrappers"
              /\ accepted' = accepted \cup {dest}
              /\ UNCHANGED <<lib, rejected, exitCode, outcome>>
         ELSE /\ rejected' = rejected \cup {<<"copied", dest>>}
              /\ UNCHANGED accepted
              /\ \E removed \in BOOLEAN :                           \* try: os.remove  except: pass
                   lib' = IF removed THEN [lib EXCEPT ![dest] = Absent] ELSE lib
              /\ Return(1)
    /\ dest' = None
    /\ UNCHANGED <<runEnv, libDirExists, skbuild, wheel, wheelSo, matching_dir, so_files,
                   installed, stages, cleanResult>>

\* lines 272-285: copy the wrapper modules of the build directory
M_CopyWrappers ==
    /\ entry = "main" /\ pc = "wrappers"
    /\ LET wrapper_files == GlobPy(skbuild[matching_dir].files) \cap WrapperNames
       IN  lib' = [n \in LibNames |-> IF n \in wrapper_files THEN skbuild[matching_dir].files[n]
                                      ELSE lib[n]]
    /\ stages' = stages \cup {"copy_wrappers"}
    /\ pc' = "final_verify"
    /\ UNCHANGED <<runEnv, libDirExists, skbuild, wheel, wheelSo, matching_dir, so_files, dest,
                   installed, exitCode, outcome, rejected, accepted, cleanResult>>

\* lines 287-304: the final verification of the library directory
M_FinalVerify ==
    /\ entry = "main" /\ pc = "final_verify"
    /\ stages' = stages \cup {"final_verify"}
    /\ LET final_so == GlobSo(lib)
       IN  IF final_so = {}
           THEN Return(1) /\ UNCHANGED <<rejected, accepted>>      \* line 291
           ELSE \E kinds \in [final_so -> PipeToolKinds] :
                  LET bad == Rejects(<<"pc_ble_driver_py/lib/">>, lib, final_so, python_version, kinds)
                  IN  /\ rejected' = rejected \cup {<<"final", n>> : n \in bad}
                      /\ accepted' = (accepted \ bad) \cup (final_so \ bad)
                      /\ IF bad # {}
                         THEN Return(1)                             \* line 302
                         ELSE pc' = "install_editable" /\ UNCHANGED <<exitCode, outcome>>
    /\ UNCHANGED <<runEnv, libDirExists, lib, skbuild, wheel, wheelSo, matching_dir, so_files,
                   dest, installed, cleanResult>>

\* the value of installed after  pip install -e .
Editable == <<"editable">>

\* lines 309-327: pip install -e .
M_InstallEditable ==
    /\ entry = "main" /\ pc = "install_editable"
    /\ stages' = stages \cup {"install_editable"}
    /\ \E returncode \in {0, 1} :
         /\ installed' = IF returncode = 0 THEN Editable ELSE installed
         /\ Return(returncode)
    /\ UNCHANGED <<runEnv, libDirExists, lib, skbuild, wheel, wheelSo, matching_dir, so_files,
                   dest, rejected, accepted, cleanResult>>

----------------------------------------------------------------------------
(* main() of .tox_find_wheel_fallback.py *)

\* lines 85-89, 94-98, 105-106: read the toggle, select a wheel
F_Select ==
    /\ entry = "fallback" /\ pc = "f_select"
    /\ wheel' \in find_wheel_fallback(dist, runtime, PipeArch)
    /\ stages' = stages \cup {"select"}
    /\ pc' = IF wheel' = None THEN "f_build"
             ELSE IF skipTest THEN "f_install_wheel" ELSE "f_test"
    /\ UNCHANGED <<runEnv, libDirExists, lib, skbuild, wheelSo, matching_dir, so_files, dest,
                   installed, exitCode, outcome, rejected, accepted, cleanResult>>

\* lines 89-93: pip install of the selected wheel, untested
F_InstallWheel ==
    /\ entry = "fallback" /\ pc = "f_install_wheel"
    /\ stages' = stages \cup {"install_wheel"}
    /\ \E returncode \in {0, 1} :
         /\ installed' = IF returncode = 0 THEN wheel ELSE installed
         /\ Return(returncode)
    /\ UNCHANGED <<runEnv, libDirExists, lib, skbuild, wheel, wheelSo, matching_dir, so_files,
                   dest, rejected, accepted, cleanResult>>

\* what the import test of lines 68-71 can do
ImportResults == {"ok", "fails", "timeout"}

\* lines 99-104 with test_wheel_import, lines 55-81
F_TestWheel ==
    /\ entry = "fallback" /\ pc = "f_test"
    /\ stages' = stages \cup {"install_wheel"}
    /\ \E returncode \in {0, 1} :
         IF returncode # 0
         THEN /\ pc' = "f_build"                                   \* line 65
              /\ UNCHANGED <<installed, exitCode, outcome>>
         ELSE \E test_result \in ImportResults :
                CASE test_result = "ok" -> installed' = wheel /\ Return(0)
                  [] test_result = "fails" ->                       \* lines 77-81: uninstall
                       /\ installed' = None
                       /\ pc' = "f_build"
                       /\ UNCHANGED <<exitCode, outcome>>
                  [] test_result = "timeout" ->                     \* subprocess.TimeoutExpired
                       installed' = wheel /\ Crash
    /\ UNCHANGED <<runEnv, libDirExists, lib, skbuild, wheel, wheelSo, matching_dir, so_files,
                   dest, rejected, accepted, cleanResult>>

\* lines 108-114: setup.py build
F_Build ==
    /\ entry = "fallback" /\ pc = "f_build"
    /\ stages' = stages \cup {"build"}
    /\ \E returncode \in {0, 1} :
         IF returncode # 0
         THEN Return(returncode) /\ UNCHANGED skbuild
         ELSE /\ \E out \in BuildOutputs(runtime) \cup {skbuild[BuildDirPath(runtime)]} :
                   skbuild' = [skbuild EXCEPT ![BuildDirPath(runtime)] = out]
              /\ pc' = "f_copy"
              /\ UNCHANGED <<exitCode, outcome>>
    /\ UNCHANGED <<runEnv, libDirExists, lib, wheel, wheelSo, matching_dir, so_files, dest,
                   installed, rejected, accepted, cleanResult>>

\* lines 116-120: copy the libraries of every build directory.  A name that
\* several build directories hold ends as the copy made last, and the order of
\* glob.glob is not fixed; copying into a directory that does not exist raises.
F_Copy ==
    /\ entry = "fallback" /\ pc = "f_copy"
    /\ LET build_dirs == GlobBuildDirs(skbuild)
           libs == {n \in SoNames : \E d \in build_dirs : n \in GlobSo(skbuild[d].files)}
       IN  IF libs = {}
           THEN /\ pc' = "f_install"
                /\ UNCHANGED <<lib, stages, exitCode, outcome>>
           ELSE IF ~libDirExists
                THEN Crash /\ UNCHANGED <<lib, stages>>
                ELSE /\ \E last \in [libs -> build_dirs] :
                          /\ \A n \in libs : n \in GlobSo(skbuild[last[n]].files)
                          /\ lib' = [n \in LibNames |-> IF n \in libs THEN skbuild[last[n]].files[n]
                                                        ELSE lib[n]]
                     /\ stages' = stages \cup {"copy"}
                     /\ pc' = "f_install"
                     /\ UNCHANGED <<exitCode, outcome>>
    /\ UNCHANGED <<runEnv, libDirExists, skbuild, wheel, wheelSo, matching_dir, so_files, dest,
                   installed, rejected, accepted, cleanResult>>

\* lines 122-126: pip install -e .
F_Install ==
    /\ entry = "fallback" /\ pc = "f_install"
    /\ stages' = stages \cup {"install_editable"}
    /\ \E returncode \in {0, 1} :
         /\ installed' = IF returncode = 0 THEN Editable ELSE installed
         /\ Return(returncode)
    /\ UNCHANGED <<runEnv, libDirExists, lib, skbuild, wheel, wheelSo, matching_dir, so_files,
                   dest, rejected, accepted, cleanResult>>

----------------------------------------------------------------------------
(* bundle_into_wheel.py *)

\* libs_to_bundle, lines 32-35
libs_to_bundle ==
    {<<"libnrf-ble-driver-sd_api_v2", ".4.1.4.dylib">>, <<"libnrf-ble-driver-sd_api_v5", ".4.1.4.dylib">>}

\* the runtime search path entry of line 127
DepsRpath == <<"@loader_path/deps">>

\* a library of the payload (pc_ble_driver_py/lib/*.so): its LC_RPATH entries
\* and its dependency table
Library(rpaths, deps) == [rpaths |-> rpaths, deps |-> deps]
\* a consumer library as bundle_dependencies sees it: it never reads the table
Consumer(rpaths) == Library(rpaths, <<RefSystem>>)
ConsumerStates == {Consumer(<<>>), Consumer(<<DepsRpath>>)}
\* a file of pc_ble_driver_py/lib/deps: whether it is there, and its install
\* name: "orig" as built, "loader" (@loader_path/deps/<name>), "rpath" (@rpath/<name>)
NoDep == [present |-> FALSE, id |-> "orig"]
Dep(id) == [present |-> TRUE, id |-> id]

\* the payload of a wheel: the consumer libraries and the deps directory
Payload(consumers, deps) == [consumers |-> consumers, deps |-> deps]
EmptyPayload == Payload([n \in SoNames |-> Consumer(<<>>)], [l \in libs_to_bundle |-> NoDep])
\* a file that holds a wheel: absent; a complete zip archive; or what a write
\* that did not run to its end left (no central directory, or a truncated copy)
NoFile == [state |-> "absent", payload |-> EmptyPayload]
Complete(payload) == [state |-> "complete", payload |-> payload]
Partial == [state |-> "partial", payload |-> EmptyPayload]
\* tempfile.mkdtemp() not called, or the directory removed by line 158
NoTemp == [exists |-> FALSE, payload |-> EmptyPayload]
Temp(payload) == [exists |-> TRUE, payload |-> payload]
\* the path mkdtemp returned
TempPath == <<"/tmp/", "tmp", "k3x9_a1b">>

\* stdout of  otool -l so_file : the LC_RPATH commands
OtoolLoadCommands(c) ==
    Concat([i \in 1..Len(c.rpaths) |-> <<"cmd LC_RPATH", "\n", "path ">> \o c.rpaths[i] \o <<" (offset 12)", "\n">>])

\* install_name_tool -add_rpath @loader_path/deps so_file: refuses an entry
\* the file already has, else adds it unless the tool fails
AddRpath(c, toolOk) ==
    IF \E i \in 1..Len(c.rpaths) : c.rpaths[i] = DepsRpath THEN c
    ELSE IF toolOk THEN Library(Append(c.rpaths, DepsRpath), c.deps) ELSE c

\* lines 117-136 on one consumer library
UpdateConsumer(so_file, c, otoolOk, toolOk) ==
    IF ~Contains(so_file, <<"deps">>)
    THEN IF ~Contains(IF otoolOk THEN OtoolLoadCommands(c) ELSE <<>>, DepsRpath)
         THEN AddRpath(c, toolOk)
         ELSE c
    ELSE c

\* faulty variant: the finally clause of lines 157-158 is missing
BundleEnds_NoCleanup(how) ==
    /\ bRets' = Append(bRets, how)
    /\ temp_dir' = temp_dir
    /\ bPc' = "idle"

\* how a call ends: return True / False, or an exception leaves it; the
\* finally clause of line 158 removes the scratch directory
BundleEnds(how) ==
    /\ bRets' = Append(bRets, how)
    /\ temp_dir' = NoTemp
    /\ bPc' = "idle"

\* faulty variant: the check of lines 46-48 is missing
B_Call_NoSourceCheck ==
    /\ bPc = "idle" /\ gPc = "idle" /\ Len(bRets) + Len(gRets) < MaxBundleCalls
    /\ \E dirExists \in BOOLEAN, libs \in SUBSET libs_to_bundle :
         /\ (~dirExists => libs = {})
         /\ bPrev' = [wheel |-> wheel_file, backup |-> backup_file, sources |-> libs]
         /\ IF wheel_file.state = "absent"
            THEN BundleEnds("False") /\ UNCHANGED existing_libs           \* line 22
            ELSE IF ~dirExists
            THEN BundleEnds("False") /\ UNCHANGED existing_libs           \* line 27
            ELSE /\ existing_libs' = libs
                 /\ temp_dir' = Temp(EmptyPayload)
                 /\ bPc' = "extract"
                 /\ UNCHANGED bRets
    /\ UNCHANGED <<wheel_file, backup_file, bPristine, notBundleVars>>

\* lines 19-51: the checks before anything is touched
B_Call ==
    /\ bPc = "idle" /\ gPc = "idle" /\ Len(bRets) + Len(gRets) < MaxBundleCalls
    /\ \E dirExists \in BOOLEAN, libs \in SUBSET libs_to_bundle :
         /\ (~dirExists => libs = {})
         /\ bPrev' = [wheel |-> wheel_file, backup |-> backup_file, sources |-> libs]
         /\ IF wheel_file.state = "absent"
            THEN BundleEnds("False") /\ UNCHANGED existing_libs           \* line 22
            ELSE IF ~dirExists
            THEN BundleEnds("False") /\ UNCHANGED existing_libs           \* line 27
            ELSE /\ existing_libs' = libs
                 /\ IF libs = {}
                    THEN BundleEnds("False")                              \* line 48
                    ELSE /\ temp_dir' = Temp(EmptyPayload)                \* line 51
                         /\ bPc' = "extract"
                         /\ UNCHANGED bRets
    /\ UNCHANGED <<wheel_file, backup_file, bPristine, notBundleVars>>

\* lines 53-58: extract the wheel; a file that is no zip archive raises BadZipFile
B_Extract ==
    /\ bPc = "extract"
    /\ IF wheel_file.state = "complete"
       THEN /\ temp_dir' = Temp(wheel_file.payload)
            /\ bPc' = "deps"
            /\ UNCHANGED bRets
       ELSE BundleEnds("raised")
    /\ UNCHANGED <<wheel_file, backup_file, existing_libs, bPrev, bPristine, notBundleVars>>

\* faulty variant: every library of libs_to_bundle is copied, found or not
B_CopyDeps_All ==
    /\ bPc = "deps"
    /\ \E ids \in [libs_to_bundle -> {"loader", "rpath", "orig"}] :
         temp_dir' = Temp(Payload(temp_dir.payload.consumers, [l \in libs_to_bundle |-> Dep(ids[l])]))
    /\ bPc' = "rpath"
    /\ UNCHANGED <<wheel_file, backup_file, existing_libs, bPrev, bPristine, bRets, notBundleVars>>

\* lines 61-113: copy each dependency into deps/ and set its install name;
\* install_name_tool -id may fail, and the second form may fail too
B_CopyDeps ==
    /\ bPc = "deps"
    /\ \E ids \in [existing_libs -> {"loader", "rpath", "orig"}] :
         temp_dir' = Temp(Payload(temp_dir.payload.consumers,
                                  [l \in libs_to_bundle |->
                                      IF l \in existing_libs THEN Dep(ids[l])
                                      ELSE temp_dir.payload.deps[l]]))
    /\ bPc' = "rpath"
    /\ UNCHANGED <<wheel_file, backup_file, existing_libs, bPrev, bPristine, bRets, notBundleVars>>

\* lines 115-136: add the search path to the consumer libraries
B_Rpath ==
    /\ bPc = "rpath"
    /\ \E otoolOk \in BOOLEAN, added \in SUBSET SoNames :
         temp_dir' = Temp(Payload([n \in SoNames |->
                                      UpdateConsumer(TempPath \o <<"/pc_ble_driver_py/lib/">> \o n,
                                                     temp_dir.payload.consumers[n],
                                                     otoolOk, n \in added)],
                                  temp_dir.payload.deps))
    /\ bPc' = "backup"
    /\ UNCHANGED <<wheel_file, backup_file, existing_libs, bPrev, bPristine, bRets, notBundleVars>>

\* lines 140-142: copy the wheel to backup_path unless a file is there;
\* shutil.copy2 can fail part-way and leaves what it wrote
B_Backup ==
    /\ bPc = "backup"
    /\ IF backup_file.state = "absent"
       THEN \/ /\ backup_file' = wheel_file
               /\ bPc' = "open"
               /\ UNCHANGED <<temp_dir, bRets>>
            \/ /\ backup_file' = Partial
               /\ BundleEnds("raised")
       ELSE /\ bPc' = "open"
            /\ UNCHANGED <<backup_file, temp_dir, bRets>>
    /\ UNCHANGED <<wheel_file, existing_libs, bPrev, bPristine, notBundleVars>>

\* line 144: zipfile.ZipFile(wheel_path, 'w') truncates the wheel
B_Open ==
    /\ bPc = "open"
    /\ wheel_file' = Partial
    /\ bPc' = "write"
    /\ UNCHANGED <<backup_file, temp_dir, existing_libs, bPrev, bPristine, bRets, notBundleVars>>

\* lines 145-155: write the scratch directory into the wheel and close it, or
\* fail while writing
B_Write ==
    /\ bPc = "write"
    /\ \/ wheel_file' = Complete(temp_dir.payload) /\ BundleEnds("True")
       \/ BundleEnds("raised") /\ UNCHANGED wheel_file
    /\ UNCHANGED <<backup_file, existing_libs, bPrev, bPristine, notBundleVars>>

----------------------------------------------------------------------------
(* fix_wheel_python_version.py *)

\* faulty variant: every reference relative to a search path is rewritten
NeedsChange_AnyRpath(line) == Contains(line, <<"@rpath/">>)

\* the test of line 27
NeedsChange(line) == Contains(line, <<"@rpath/", "libpython">>) /\ Contains(line, <<".dylib">>)

\* the tokens of the tool's output that are, or begin with, white space
Blank == {"\t", "\n", " (compatibility version)"}
RECURSIVE LStrip(_)
LStrip(s) == IF s # <<>> /\ Head(s) \in Blank THEN LStrip(Tail(s)) ELSE s
RECURSIVE UpToBlank(_)
UpToBlank(s) == IF s = <<>> \/ Head(s) \in Blank THEN <<>> ELSE <<Head(s)>> \o UpToBlank(Tail(s))
\* line.strip().split()[0]
FirstWord(line) == UpToBlank(LStrip(line))

\* new_ref, line 31
NewRef == RefGeneric

\* changes_needed after the loop of lines 26-32: the old references
changes_needed(so_path, deps) ==
    LET hits == SelectSeq(SplitLines(OtoolStdout(so_path, deps)), NeedsChange)
    IN  [i \in 1..Len(hits) |-> FirstWord(hits[i])]

\* install_name_tool -change old_ref new_ref so_path
Change(deps, old_ref, new_ref) ==
    [i \in 1..Len(deps) |-> IF deps[i] = old_ref THEN new_ref ELSE deps[i]]

\* the first n iterations of the loop of lines 35-40
RECURSIVE ApplyChanges(_, _, _)
ApplyChanges(deps, changes, n) ==
    IF n = 0 THEN deps
    ELSE Change(ApplyChanges(deps, changes, n - 1), changes[n], NewRef)

\* The call fix_so_file(so_path) on a library with dependency table deps, given
\* what otool does (kind) and which invocation of install_name_tool fails
\* (failAt, 0 for none); both run with check=True.
\*   changed  the value returned
\*   raised   whether the call ended by an exception instead of returning
\*   writes   the invocations of install_name_tool that rewrote the library
\*   deps     the dependency table afterwards
fix_so_file(so_path, deps, kind, failAt) ==
    IF kind # "ok"
    THEN [changed |-> FALSE, raised |-> TRUE, writes |-> 0, deps |-> deps]
    ELSE LET changes == changes_needed(so_path, deps)
         IN  IF failAt \in 1..Len(changes)
             THEN [changed |-> FALSE, raised |-> TRUE, writes |-> failAt - 1,
                   deps |-> ApplyChanges(deps, changes, failAt - 1)]
             ELSE [changed |-> Len(changes) > 0, raised |-> FALSE, writes |-> Len(changes),
                   deps |-> ApplyChanges(deps, changes, Len(changes))]

\* a library fix_so_file was not called on
NotCalled == [called |-> FALSE, before |-> <<>>, changed |-> FALSE, raised |-> FALSE, writes |-> 0, deps |-> <<>>]
CalledOn(before, r) ==
    [called |-> TRUE, before |-> before, changed |-> r.changed, raised |-> r.raised,
     writes |-> r.writes, deps |-> r.deps]
NoFixes == [n \in SoNames |-> NotCalled]

\* how a call of fix_wheel ends; leaving the with block of line 49 removes
\* the scratch directory
FixEnds(how) ==
    /\ gRets' = Append(gRets, how)
    /\ temp_dir' = NoTemp
    /\ gPc' = "idle"

\* lines 44-49: the scratch directory is created
FW_Call ==
    /\ gPc = "idle" /\ bPc = "idle" /\ Len(bRets) + Len(gRets) < MaxBundleCalls
    /\ gPrev' = [wheel |-> wheel_file, backup |-> backup_file]
    /\ temp_dir' = Temp(EmptyPayload)
    /\ gPc' = "extract"
    /\ UNCHANGED <<gLast, gRets>>
    /\ UNCHANGED <<bPc, wheel_file, backup_file, existing_libs, bPrev, bPristine, bRets>>
    /\ UNCHANGED <<pipeVars, constVars, verifyVars, cleanVars, selectVars, matchVars>>

\* lines 52-53: extract the wheel; a missing file or one that is no zip archive raises
FW_Extract ==
    /\ gPc = "extract"
    /\ IF wheel_file.state = "complete"
       THEN /\ temp_dir' = Temp(wheel_file.payload)
            /\ gPc' = "fix"
            /\ UNCHANGED gRets
       ELSE FixEnds("raised")
    /\ UNCHANGED <<gPrev, gLast>>
    /\ UNCHANGED <<bPc, wheel_file, backup_file, existing_libs, bPrev, bPristine, bRets>>
    /\ UNCHANGED <<pipeVars, constVars, verifyVars, cleanVars, selectVars, matchVars>>

\* the results of the loop of lines 60-63 over so_files in the order given:
\* the first exception ends it
RECURSIVE FixLoop(_, _, _, _)
FixLoop(order, libs, kinds, failAts) ==
    IF order = <<>> THEN NoFixes
    ELSE LET n == Head(order)
             r == fix_so_file(TempPath \o <<"/pc_ble_driver_py/lib/">> \o n, libs[n].deps, kinds[n], failAts[n])
         IN  IF r.raised
             THEN [NoFixes EXCEPT ![n] = CalledOn(libs[n].deps, r)]
             ELSE [FixLoop(Tail(order), libs, kinds, failAts) EXCEPT ![n] = CalledOn(libs[n].deps, r)]

\* lines 56-67: fix every library of the scratch directory; return when none changed
FW_Fix ==
    /\ gPc = "fix"
    /\ \E order \in Enumerations(SoNames), kinds \in [SoNames -> PipeToolKinds],
          failAts \in [SoNames -> 0..1] :
         LET res == FixLoop(order, temp_dir.payload.consumers, kinds, failAts)
             fixed_any == \E n \in SoNames : res[n].changed
         IN  /\ gLast' = res
             /\ IF \E n \in SoNames : res[n].raised
                THEN FixEnds("raised")
                ELSE IF ~fixed_any
                THEN FixEnds("nochange")                                   \* line 67
                ELSE /\ temp_dir' = Temp(Payload([n \in SoNames |->
                                                    Library(temp_dir.payload.consumers[n].rpaths, res[n].deps)],
                                                 temp_dir.payload.deps))
                     /\ gPc' = "backup"
                     /\ UNCHANGED gRets
    /\ UNCHANGED gPrev
    /\ UNCHANGED <<bPc, wheel_file, backup_file, existing_libs, bPrev, bPristine, bRets>>
    /\ UNCHANGED <<pipeVars, constVars, verifyVars, cleanVars, selectVars, matchVars>>

\* lines 71-78: copy the wheel to backup_path, whatever is there; shutil.copy2
\* can fail part-way and leaves what it wrote
FW_Backup ==
    /\ gPc = "backup"
    /\ IF wheel_file.state # "absent"
       THEN \/ /\ backup_file' = wheel_file
               /\ gPc' = "open"
               /\ UNCHANGED <<temp_dir, gRets>>
            \/ /\ backup_file' = Partial
               /\ FixEnds("raised")
       ELSE /\ gPc' = "open"
            /\ UNCHANGED <<backup_file, temp_dir, gRets>>
    /\ UNCHANGED <<gPrev, gLast>>
    /\ UNCHANGED <<bPc, wheel_file, existing_libs, bPrev, bPristine, bRets>>
    /\ UNCHANGED <<pipeVars, constVars, verifyVars, cleanVars, selectVars, matchVars>>

\* line 81: zipfile.ZipFile(output_path, 'w') truncates the wheel
FW_Open ==
    /\ gPc = "open"
    /\ wheel_file' = Partial
    /\ gPc' = "write"
    /\ UNCHANGED <<gPrev, gLast, gRets>>
    /\ UNCHANGED <<bPc, backup_file, temp_dir, existing_libs, bPrev, bPristine, bRets>>
    /\ UNCHANGED <<pipeVars, constVars, verifyVars, cleanVars, selectVars, matchVars>>

\* lines 82-88: write the scratch directory into the wheel and close it, or
\* fail while writing
FW_Write ==
    /\ gPc = "write"
    /\ \/ wheel_file' = Complete(temp_dir.payload) /\ FixEnds("fixed")
       \/ FixEnds("raised") /\ UNCHANGED wheel_file
    /\ UNCHANGED <<gPrev, gLast>>
    /\ UNCHANGED <<bPc, backup_file, existing_libs, bPrev, bPristine, bRets>>
    /\ UNCHANGED <<pipeVars, constVars, verifyVars, cleanVars, selectVars, matchVars>>

----------------------------------------------------------------------------
(* tools/patch_skbuild_constants.py *)

\* The text of constants.py is a sequence of tokens: white space characters,
\* and statements standing for their characters.
\* the assignment the tool looks for, as skbuild ships it and with the
\* optional white space of the pattern left out
Target == "major_macos, minor_macos = release.split(\".\")[:2]"
TargetTight == "major_macos,minor_macos=release.split(\".\")[:2]"
\* the three statements the replacement puts before the assignment
PartsStmt == "parts = release.split(\".\")"
IfStmt == "if len(parts) < 2:"
ReleaseStmt == "release = f\"{parts[0]}.0\" if parts else \"15.0\""
\* four spaces, the extra indentation of the third line of the replacement
FourSpaces == "    "
\* any other statement
OtherStmt == "import os"

\* the texts matched by  major_macos,\s*minor_macos\s*=\s*release\.split\("."\)\[:2\]
Targets == {Target, TargetTight}
\* [ \t] and \s
IndentChars == {" ", "\t", FourSpaces}
WhiteSpace == IndentChars \cup {"\n"}

\* ^ under re.MULTILINE at index i of text s
LineStart(s, i) == i = 1 \/ s[i - 1] = "\n"
\* $ under re.MULTILINE before index k of text s
LineEnd(s, k) == k > Len(s) \/ s[k] = "\n"
\* where the run of [ \t] that starts at index i ends
RECURSIVE IndentEnd(_, _)
IndentEnd(s, i) == IF i <= Len(s) /\ s[i] \in IndentChars THEN IndentEnd(s, i + 1) ELSE i
\* the indices before which a match of the pattern that starts at i can end:
\* after the assignment, \s* takes white space up to a point where $ holds
MatchEnds(s, i) ==
    LET j == IndentEnd(s, i)
    IN  IF LineStart(s, i) /\ j <= Len(s) /\ s[j] \in Targets
        THEN {e \in (j + 1)..(Len(s) + 1) :
                 LineEnd(s, e) /\ \A x \in (j + 1)..(e - 1) : s[x] \in WhiteSpace}
        ELSE {}
Max(S) == CHOOSE x \in S : \A y \in S : y <= x
Min(S) == CHOOSE x \in S : \A y \in S : x <= y

NoMatch == [found |-> FALSE, start |-> 0, end |-> 0, indent |-> <<>>]
\* re.search(pattern, src, flags=re.MULTILINE), line 18: the leftmost match,
\* \s* greedy; end is the index after the match, indent is m.group(1)
search(src) ==
    LET starts == {i \in 1..Len(src) : MatchEnds(src, i) # {}}
    IN  IF starts = {} THEN NoMatch
        ELSE LET i == Min(starts)
             IN  [found |-> TRUE, start |-> i, end |-> Max(MatchEnds(src, i)),
                  indent |-> SubSeq(src, i, IndentEnd(src, i) - 1)]

\* replacement, lines 21-26
replacement(indent) ==
    indent \o <<PartsStmt, "\n">>
    \o indent \o <<IfStmt, "\n">>
    \o indent \o <<FourSpaces, ReleaseStmt, "\n">>
    \o indent \o <<Target, "\n">>

\* re.sub(pattern, replacement, src, count=1, flags=re.MULTILINE), line 27
sub(src) ==
    LET m == search(src)
    IN  IF ~m.found THEN src
        ELSE SubSeq(src, 1, m.start - 1) \o replacement(m.indent) \o SubSeq(src, m.end, Len(src))

\* os.path.isfile(path) is False
Missing == <<"<missing>">>
\* what reading and writing the file can do
FileIo == {"ok", "read_error", "write_error"}

\* One run of main(), lines 7-43: it returns 0 whatever happens.
\*   file  constants.py afterwards
\*   did   "missing" (line 12), "patched" (28-31), "noop" (33), "notfound" (35),
\*         "error" (the except of line 40)
patch_main(file, io) ==
    IF file = Missing THEN [file |-> file, did |-> "missing"]
    ELSE IF io = "read_error" THEN [file |-> file, did |-> "error"]
    ELSE LET src == file
             m == search(src)
             dst == sub(src)
         IN  IF ~m.found THEN [file |-> file, did |-> "notfound"]
             ELSE IF dst = src THEN [file |-> file, did |-> "noop"]
             ELSE IF io = "write_error" THEN [file |-> file, did |-> "error"]
             ELSE [file |-> dst, did |-> "patched"]

IdleConst == constants_py = Missing /\ kPrev = Missing /\ kRets = <<>>

----------------------------------------------------------------------------
(* The pipelines, run one after the other on the same directories *)

NoCall == [ret |-> FALSE, via |-> "nocall", warned |-> FALSE, raised |-> FALSE]
NoInput == [deps |-> <<>>, expected |-> <<>>, kind |-> "ok"]
IdleClean ==
    /\ cExists = FALSE /\ cDir = EmptyDir /\ cPrev = [exists |-> FALSE, files |-> EmptyDir]
    /\ cRet = FALSE /\ cCalls = 0
IdleSelect ==
    /\ sWhich = "main" /\ sDir = {} /\ sVer = V3_12 /\ sArch = PipeArch /\ sRets = <<>>
IdleMatch ==
    /\ mDirs = {} /\ mVer = VersionStr(V3_12) /\ mRet = <<>>
IdleBundle ==
    /\ bPc = "idle" /\ wheel_file = NoFile /\ backup_file = NoFile /\ temp_dir = NoTemp
    /\ existing_libs = {} /\ bPrev = [wheel |-> NoFile, backup |-> NoFile, sources |-> {}]
    /\ bPristine = NoFile /\ bRets = <<>>
    /\ gPc = "idle" /\ gPrev = [wheel |-> NoFile, backup |-> NoFile]
    /\ gLast = NoFixes /\ gRets = <<>>

\* the library directory before the first run: absent, holding none of the
\* pipeline's files, or holding what a build for some runtime left
InitialLibDirs ==
    {[exists |-> FALSE, files |-> EmptyDir], [exists |-> TRUE, files |-> CleanDir]}
    \cup {[exists |-> TRUE, files |-> StaleDir(v)] : v \in PipeVersions}

Init ==
    /\ entry = "none" /\ pc = "idle" /\ runs = 0
    /\ runtime = V3_12
    /\ pvBound \in BOOLEAN
    /\ useWheels = FALSE /\ skipTest = FALSE
    /\ \E d \in InitialLibDirs : libDirExists = d.exists /\ lib = d.files
    /\ dist \in DistChoices
    /\ skbuild = NoBuilds
    /\ wheel = None /\ wheelSo = EmptyDir /\ matching_dir = None /\ so_files = {}
    /\ dest = None /\ installed = None /\ exitCode = NoExit /\ outcome = "idle"
    /\ stages = {} /\ rejected = {} /\ accepted = {} /\ cleanResult = "none"
    /\ foreign = {}
    /\ vIn = NoInput /\ vOut = NoCall
    /\ IdleClean
    /\ IdleSelect
    /\ IdleMatch
    /\ IdleBundle
    /\ IdleConst

Next ==
    \/ StartRun
    \/ M_Clean
    \/ M_Select
    \/ M_VerifyWheel
    \/ M_InstallWheel
    \/ M_Build
    \/ M_Match
    \/ M_CopySo
    \/ M_VerifyCopied
    \/ M_CopyWrappers
    \/ M_FinalVerify
    \/ M_InstallEditable
    \/ F_Select
    \/ F_InstallWheel
    \/ F_TestWheel
    \/ F_Build
    \/ F_Copy
    \/ F_Install

Spec == Init /\ [][Next]_vars

----------------------------------------------------------------------------
(* The main pipeline with a second instance writing into the same library directory *)

\* Another pipeline instance, run for another runtime on the same directory,
\* copies one of its libraries into pc_ble_driver_py/lib (its line 257) after
\* this run's sanitize succeeded and before this run's first copy.  Nothing
\* in the code excludes it: no lock is taken on the directory.
OtherInstanceCopies ==
    /\ entry = "main" /\ outcome = "running" /\ cleanResult = "success"
    /\ pc \in {"select", "verify_wheel", "install_wheel", "build", "match", "copy"}
    /\ "copy" \notin stages
    /\ libDirExists
    /\ \E n \in SoNames \ foreign :
         /\ lib' = [lib EXCEPT ![n] = LinkedTo(OtherVersion(runtime))]
         /\ foreign' = foreign \cup {n}
    /\ UNCHANGED <<entry, pc, runtime, pvBound, useWheels, skipTest, libDirExists, dist,
                   skbuild, wheel, wheelSo, matching_dir, so_files, dest, installed, exitCode,
                   outcome, stages, rejected, accepted, cleanResult, runs, unitVars>>

NextConcurrent == Next \/ OtherInstanceCopies
SpecConcurrent == Init /\ [][NextConcurrent]_vars

----------------------------------------------------------------------------
(* The verifier on its own: one call on inputs drawn from bounded sets *)

VerifyInputs == [deps : SeqUpTo(Refs, MaxRefs),
                 expected : {VersionStr(v) : v \in LinkVersions},
                 kind : ToolKinds]

IdlePipe ==
    /\ entry = "none" /\ pc = "idle" /\ runtime = V3_12 /\ pvBound = FALSE
    /\ useWheels = FALSE /\ skipTest = FALSE /\ libDirExists = FALSE
    /\ lib = EmptyDir /\ dist = {} /\ skbuild = NoBuilds /\ wheel = None /\ wheelSo = EmptyDir
    /\ matching_dir = None /\ so_files = {} /\ dest = None /\ installed = None
    /\ exitCode = NoExit /\ outcome = "idle" /\ stages = {} /\ rejected = {}
    /\ accepted = {} /\ cleanResult = "none" /\ runs = 0 /\ foreign = {}

InitVerify ==
    /\ IdlePipe
    /\ IdleConst
    /\ IdleBundle
    /\ IdleClean
    /\ IdleSelect
    /\ IdleMatch
    /\ vIn \in VerifyInputs
    /\ vOut = NoCall

VerifyCall ==
    /\ vOut = NoCall
    /\ vOut' = verify_so_python_version(LibDirFile(<<"_nrf_ble_driver_sd_api_v5", ".so">>), vIn.deps, vIn.expected, vIn.kind)
    /\ UNCHANGED <<vIn, pipeVars, constVars, cleanVars, selectVars, matchVars, bundleVars>>

NextVerify == VerifyCall
SpecVerify == InitVerify /\ [][NextVerify]_vars

----------------------------------------------------------------------------
(* The sanitizer on its own: repeated calls on a directory drawn from a bounded set *)

\* the library directories clean_lib_directory is called on
LibDirStates ==
    {f \in [LibNames -> LibContents \cup {Absent, PyContent, OtherContent}] :
        /\ \A n \in SoNames : f[n] \in LibContents \cup {Absent}
        /\ \A n \in WrapperNames : f[n] \in {PyContent, Absent}
        /\ \A n \in OtherNames : f[n] \in {OtherContent, Absent}}

InitClean ==
    /\ IdlePipe
    /\ IdleConst
    /\ IdleBundle
    /\ IdleSelect
    /\ IdleMatch
    /\ vIn = NoInput /\ vOut = NoCall
    /\ cExists \in BOOLEAN
    /\ cDir \in IF cExists THEN LibDirStates ELSE {EmptyDir}
    /\ cPrev = [exists |-> cExists, files |-> cDir]
    /\ cRet = FALSE
    /\ cCalls = 0

CleanCall ==
    /\ cCalls < MaxCleanCalls
    /\ \E failSo \in SUBSET GlobSo(cDir), failPy \in SUBSET (GlobPy(cDir) \cap WrapperNames) :
         /\ Cardinality(failSo \cup failPy) <= MaxRemoveFailures
         /\ LET r == clean_lib_directory(cExists, cDir, failSo, failPy)
            IN  /\ cDir' = r.files
                /\ cRet' = r.ret
    /\ cExists' = TRUE
    /\ cPrev' = [exists |-> cExists, files |-> cDir]
    /\ cCalls' = cCalls + 1
    /\ UNCHANGED <<pipeVars, constVars, verifyVars, selectVars, matchVars, bundleVars>>

NextClean == CleanCall
SpecClean == InitClean /\ [][NextClean]_vars

----------------------------------------------------------------------------
(* The selector on its own: repeated calls on a listing of dist/ drawn from a bounded set *)

\* the listings of dist/ find_wheel is called on
DistListings == {d \in SUBSET WheelNames : Cardinality(d) <= MaxWheels}

InitSelect ==
    /\ IdlePipe
    /\ IdleConst
    /\ IdleBundle
    /\ IdleClean
    /\ IdleMatch
    /\ vIn = NoInput /\ vOut = NoCall
    /\ sWhich \in {"main", "fallback"}
    /\ sDir \in DistListings
    /\ sVer \in {V3_10, V3_12}
    /\ sArch \in SelectArchs
    /\ sRets = <<>>

\* one call of find_wheel(): dist/ is unchanged, the directory yields its
\* entries in some order
SelectCall ==
    /\ Len(sRets) < MaxSelectCalls
    /\ \E l \in Enumerations(sDir) :
         sRets' = Append(sRets, find_wheel_in(sWhich, l, sVer, sArch))
    /\ UNCHANGED <<sWhich, sDir, sVer, sArch, pipeVars, constVars, verifyVars, cleanVars, matchVars, bundleVars>>

NextSelect == SelectCall
SpecSelect == InitSelect /\ [][NextSelect]_vars

----------------------------------------------------------------------------
(* The search for the build directory on its own *)

InitMatch ==
    /\ IdlePipe
    /\ IdleConst
    /\ IdleBundle
    /\ IdleClean
    /\ IdleSelect
    /\ vIn = NoInput /\ vOut = NoCall
    /\ mDirs \in {d \in SUBSET AllBuildDirs : Cardinality(d) <= MaxBuildDirs}
    /\ mVer \in {VersionStr(v) : v \in LinkVersions}
    /\ mRet = <<>>

\* one search: _skbuild/ is unchanged, glob.glob returns the directories in some order
MatchCall ==
    /\ Len(mRet) < MaxMatchCalls
    /\ \E l \in Enumerations(mDirs) : mRet' = Append(mRet, MatchingDirIn(l, mVer))
    /\ UNCHANGED <<mDirs, mVer, pipeVars, constVars, verifyVars, cleanVars, selectVars, bundleVars>>

NextMatch == MatchCall
SpecMatch == InitMatch /\ [][NextMatch]_vars

----------------------------------------------------------------------------
(* The bundler on its own: repeated calls on one wheel *)

\* the wheels bundle_dependencies is called on
InitialWheels ==
    {NoFile} \cup {Complete(Payload(c, [l \in libs_to_bundle |-> NoDep])) : c \in [SoNames -> ConsumerStates]}

InitBundle ==
    /\ IdlePipe
    /\ IdleConst
    /\ IdleClean
    /\ IdleSelect
    /\ IdleMatch
    /\ vIn = NoInput /\ vOut = NoCall
    /\ bPc = "idle"
    /\ wheel_file \in InitialWheels
    /\ backup_file = NoFile
    /\ temp_dir = NoTemp
    /\ existing_libs = {}
    /\ bPrev = [wheel |-> wheel_file, backup |-> backup_file, sources |-> {}]
    /\ bPristine = wheel_file
    /\ bRets = <<>>
    /\ gPc = "idle" /\ gPrev = [wheel |-> wheel_file, backup |-> backup_file]
    /\ gLast = NoFixes /\ gRets = <<>>

NextBundle ==
    \/ B_Call
    \/ B_Extract
    \/ B_CopyDeps
    \/ B_Rpath
    \/ B_Backup
    \/ B_Open
    \/ B_Write
SpecBundle == InitBundle /\ [][NextBundle]_vars

----------------------------------------------------------------------------
(* bundle_dependencies and fix_wheel, called one after the other on one wheel *)

\* the dependency tables of the libraries fix_wheel is called on: no runtime
\* reference, a versioned library name, a versioned framework path, the
\* version-agnostic reference
PatchTables ==
    {<<RefSystem>>, <<RefSystem, RefLibPython(V3_12)>>, <<RefFramework(V3_12), RefSystem>>,
     <<RefSystem, RefGeneric>>}
\* the wheels the tools are called on: the libraries of a wheel are built
\* together and have the same table
PatchWheels ==
    {NoFile} \cup {Complete(Payload([n \in SoNames |-> Library(<<>>, t)], [l \in libs_to_bundle |-> NoDep])) :
                      t \in PatchTables}

InitPatch ==
    /\ IdlePipe
    /\ IdleConst
    /\ IdleClean
    /\ IdleSelect
    /\ IdleMatch
    /\ vIn = NoInput /\ vOut = NoCall
    /\ bPc = "idle"
    /\ wheel_file \in PatchWheels
    /\ backup_file = NoFile
    /\ temp_dir = NoTemp
    /\ existing_libs = {}
    /\ bPrev = [wheel |-> wheel_file, backup |-> backup_file, sources |-> {}]
    /\ bPristine = wheel_file
    /\ bRets = <<>>
    /\ gPc = "idle" /\ gPrev = [wheel |-> wheel_file, backup |-> backup_file]
    /\ gLast = NoFixes /\ gRets = <<>>

NextPatch ==
    \/ B_Call
    \/ B_Extract
    \/ B_CopyDeps
    \/ B_Rpath
    \/ B_Backup
    \/ B_Open
    \/ B_Write
    \/ FW_Call
    \/ FW_Extract
    \/ FW_Fix
    \/ FW_Backup
    \/ FW_Open
    \/ FW_Write
SpecPatch == InitPatch /\ [][NextPatch]_vars

----------------------------------------------------------------------------
(* The patch tool on its own: runs made one after the other on the same constants.py *)

\* number of tokens of constants.py before the first run
MaxFileLen == 4
\* number of runs of the tool made one after the other
MaxPatchRuns == 2

FileTokens == {" ", "\n", Target, TargetTight, OtherStmt}
ConstantsFiles == {Missing} \cup UNION {[1..n -> FileTokens] : n \in 0..MaxFileLen}

InitConstants ==
    /\ IdlePipe
    /\ IdleBundle
    /\ IdleClean
    /\ IdleSelect
    /\ IdleMatch
    /\ vIn = NoInput /\ vOut = NoCall
    /\ constants_py \in ConstantsFiles
    /\ kPrev = constants_py
    /\ kRets = <<>>

PatchRun ==
    /\ Len(kRets) < MaxPatchRuns
    /\ \E io \in FileIo :
         LET r == patch_main(constants_py, io)
         IN  /\ constants_py' = r.file
             /\ kRets' = Append(kRets, r.did)
    /\ kPrev' = constants_py
    /\ UNCHANGED <<pipeVars, verifyVars, cleanVars, selectVars, matchVars, bundleVars>>

NextConstants == PatchRun
SpecConstants == InitConstants /\ [][NextConstants]_vars

----------------------------------------------------------------------------
(* Properties of the pipeline (Spec) *)

\* the run is over with a non-zero exit status
Aborted == pc = "exit" /\ exitCode # 0
\* the verifier rejected a library of the selected wheel
WheelRejected == \E r \in rejected : r[1] = "wheel"
\* the verifier rejected a library copied from the build output
BuildRejected == \E r \in rejected : r[1] \in {"copied", "final"}
\* an install step (pip install of a wheel, pip install -e .) is about to start
InstallStarts == pc \in {"install_wheel", "install_editable", "f_install_wheel", "f_test", "f_install"}
\* the runtime versions the references of a library name
VersionsOf(content) ==
    {v \in LinkVersions : \E i \in 1..Len(content.deps) : RefNames(content.deps[i], v)}
\* libraries built for different runtime versions side by side
MixedVersions(files) ==
    \E n, m \in GlobSo(files) : \E v \in VersionsOf(files[n]), w \in VersionsOf(files[m]) : v # w

C2_InstallStartsVerified ==
    InstallStarts =>
        /\ GlobSo(lib) \subseteq accepted
        /\ ~MixedVersions(lib)

C6_SanitizeFailureAborts ==
    (entry = "main" /\ cleanResult # "none") =>
        /\ (stages = {"sanitize"} /\ pc \in {"select", "exit"})
              => (cleanResult = "failure" <=> GlobSo(lib) # {})
        /\ cleanResult = "failure" => (Aborted /\ stages = {"sanitize"})

C6_Witness ==
    entry = "main" /\ cleanResult = "failure" /\ Aborted /\ GlobSo(lib) # {}

\* the step installs the selected wheel: pip made it the installed distribution
InstallsWheel == wheel # None /\ installed # wheel /\ installed' = wheel
\* the compatibility check of the selected wheel made by this run passed:
\* in the main pipeline the libraries of the extracted wheel were verified and
\* none was rejected, in the fallback pipeline the import test succeeded
WheelCheckPassed ==
    \/ entry = "main" /\ pc = "install_wheel" /\ \A n \in SoNames : <<"wheel", n>> \notin rejected
    \/ entry = "fallback" /\ ~skipTest /\ exitCode' = 0

\* C22: every step that installs the selected wheel belongs to a run whose
\* compatibility check of that wheel was made and passed.
C22_InstallOnlyAfterCheck == [][InstallsWheel => WheelCheckPassed]_vars

\* the run ended because no build directory of the runtime was found (line 242 or 307)
NoArtifactEnd ==
    entry = "main" /\ outcome = "aborted" /\ "match" \in stages /\ matching_dir = None
\* the run ended because a library of the build was rejected (line 267 or 302)
VerifyFailedEnd ==
    /\ entry = "main" /\ outcome = "aborted"
    /\ \E n \in SoNames : <<"copied", n>> \in rejected \/ <<"final", n>> \in rejected
\* the value main() returns when no build directory matches (lines 242, 307)
ExitNoArtifact == 1

BuildCopyInstall == {"build", "copy", "copy_wrappers", "install_wheel", "install_editable"}

\* C24: a run of either entry point that has built, copied or installed has
\* run the sanitizer before, and the sanitizer reported success.
C24_SanitizeFirst ==
    (stages \cap BuildCopyInstall # {}) => ("sanitize" \in stages /\ cleanResult = "success")

\* the run is over; it sanitized with success, built with exit status 0 and
\* the build directory of the runtime holds the libraries, all linked to the
\* runtime; the editable install, if reached, did not fail
GoodBuildRunOver ==
    /\ entry = "main" /\ pc = "exit" /\ "match" \in stages
    /\ cleanResult = "success"
    /\ skbuild[BuildDirPath(runtime)] = BuildGood(runtime)
    /\ ~("install_editable" \in stages /\ exitCode # 0)

\* C29: such a run of the main pipeline ends done with exit status 0 and
\* with the libraries of the build in the library directory.
C29_GoodBuildEndsDone ==
    GoodBuildRunOver =>
        /\ outcome = "done" /\ exitCode = 0
        /\ \A n \in SoNames : lib[n] = LinkedTo(runtime)

\* a later run of the main pipeline whose sanitize reported success
LaterRunSanitized == entry = "main" /\ runs > 1 /\ cleanResult = "success"

AtCopy == entry = "main" /\ pc \in {"copy", "wrappers"}

C35_TestedOrBuilt ==
    (entry = "fallback" /\ ~skipTest /\ "install_wheel" \in stages /\ pc = "exit") =>
        \/ "build" \in stages
        \/ exitCode = 0 /\ installed = wheel

\* C38: a run of the main pipeline with TOX_USE_WHEELS not set to true never
\* selects, verifies or installs a wheel: it keeps wheel at None, and the
\* stage after a successful sanitize is the build.
C38_NoWheelUnlessAsked ==
    /\ (entry = "main" /\ ~useWheels) =>
          /\ stages \cap {"select", "verify_wheel", "install_wheel"} = {}
          /\ wheel = None
          /\ pc \notin {"verify_wheel", "install_wheel"}
          /\ (stages # {} /\ stages # {"sanitize"}) => {"sanitize", "build"} \subseteq stages
    /\ (entry = "main" /\ stages \cap {"select", "verify_wheel", "install_wheel"} # {}) => useWheels
C38_Witness ==
    /\ entry = "main" /\ ~useWheels /\ dist # {} /\ pc = "exit"
    /\ "install_editable" \in stages /\ installed = Editable

----------------------------------------------------------------------------
(* Properties of clean_lib_directory (SpecClean) *)

\* no native library and no wrapper module
IsCleanDir(files) == GlobSo(files) = {} /\ \A n \in WrapperNames : files[n] = Absent

\* C7: a call on a directory that is already clean returns success and leaves
\* every entry of the directory as it was, however many calls came before.
C7_CleanIsIdempotent ==
    (cCalls > 0 /\ cPrev.exists /\ IsCleanDir(cPrev.files)) =>
        (cRet = TRUE /\ cExists /\ cDir = cPrev.files)

C7_Witness ==
    /\ cCalls = MaxCleanCalls /\ cPrev.exists /\ IsCleanDir(cPrev.files)
    /\ cRet = TRUE /\ cDir = CleanDir

\* C37: a call of clean_lib_directory changes an entry of the library
\* directory only by removing it, and only a native library or one of the
\* three wrapper modules; every other entry is as before; and a wrapper module
\* it failed to remove does not make it report failure when no native library
\* is left.
C37_RemovesOnlyOwnFiles ==
    cCalls > 0 =>
        /\ \A n \in LibNames : cDir[n] # cPrev.files[n] =>
               (cDir[n] = Absent /\ n \in SoNames \cup WrapperNames)
        /\ \A n \in OtherNames : cDir[n] = cPrev.files[n]
        /\ (GlobSo(cDir) = {} /\ \E n \in WrapperNames : cDir[n] # Absent) => cRet = TRUE
C37_Witness ==
    /\ cCalls > 0 /\ cRet = TRUE
    /\ cPrev.exists /\ GlobSo(cPrev.files) # {} /\ GlobSo(cDir) = {}
    /\ \E n \in WrapperNames : cDir[n] = PyContent
    /\ \E n \in WrapperNames : cPrev.files[n] = PyContent /\ cDir[n] = Absent
    /\ \A n \in OtherNames : cDir[n] = OtherContent

----------------------------------------------------------------------------
(* Properties of verify_so_python_version (SpecVerify) *)

Called == vOut # NoCall
\* the runtime references of a dependency table
RuntimeRefsOf(deps) == {i \in 1..Len(deps) : deps[i] \in RuntimeRefs}
\* the table has a runtime reference, and its runtime references all name v
NamesOnly(deps, v) ==
    RuntimeRefsOf(deps) # {} /\ \A i \in RuntimeRefsOf(deps) : RefNames(deps[i], v)

\* C8: for a library whose runtime references name version V, verify(lib, V)
\* is MATCH and verify(lib, V') is MISMATCH for every other V'.
C8_ExactVersionOnly ==
    (Called /\ vIn.kind = "ok") =>
        \A v \in LinkVersions :
            NamesOnly(vIn.deps, v) =>
                VerificationResult(vOut) = IF vIn.expected = VersionStr(v) THEN "MATCH" ELSE "MISMATCH"

\* C9: for a library without any runtime reference the call returns the
\* accepting INCONCLUSIVE result, whatever the expected version.
C9_NoRuntimeRefInconclusive ==
    (Called /\ RuntimeRefsOf(vIn.deps) = {}) =>
        (vOut.ret = TRUE /\ VerificationResult(vOut) = "INCONCLUSIVE")

C9_Witness ==
    /\ Called /\ vIn.kind = "ok" /\ vIn.deps = <<RefSystem, RefGeneric>>
    /\ vOut.via = "nopython" /\ vOut.ret = TRUE

\* C10: the call never raises, and when the inspection tool fails it logs a
\* warning and returns the accepting INCONCLUSIVE result, never the rejecting one.
C10_ToolFailureFailsOpen ==
    Called =>
        /\ ~vOut.raised
        /\ vIn.kind \in ToolFailures =>
              (vOut.ret = TRUE /\ vOut.warned /\ VerificationResult(vOut) = "INCONCLUSIVE")

C10_Witness ==
    /\ Called /\ vIn.kind = "UnicodeDecodeError"
    /\ vIn.deps = <<RefLibPython(V3_10)>> /\ vIn.expected = VersionStr(V3_12)
    /\ vOut.ret = TRUE /\ vOut.warned

----------------------------------------------------------------------------
(* Properties of find_wheel (SpecSelect) *)

\* the runtime tag of the caller
sTag == get_python_tag(sVer)
\* what the calls made so far returned
Returned == {sRets[i] : i \in 1..Len(sRets)}
IsBundled(w) == Contains(w, <<"_bundled">>)
\* rule 1: a bundled archive for the runtime tag and the architecture
BundledTagArch(w) ==
    Contains(w, sTag \o <<"-abi3-">>) /\ Contains(w, <<sArch>>) /\ IsBundled(w)
\* rule 3: an archive of the exact runtime tag (<tag>-abi3-)
ExactTagRule(w) == Contains(w, sTag \o <<"-abi3-">>)
\* the archives of d the first pattern with a match matches
RECURSIVE FirstMatches(_, _)
FirstMatches(patterns, d) ==
    IF patterns = <<>> THEN {}
    ELSE LET m == {w \in d : GlobMatch(Head(patterns), w)}
         IN  IF m # {} THEN m ELSE FirstMatches(Tail(patterns), d)

\* C11: find_wheel of the main pipeline returns a bundled archive for the
\* runtime tag and the architecture whenever dist/ has one; and whenever
\* dist/ has a non-bundled archive of the exact runtime tag, it returns an
\* archive of the exact runtime tag, never one that only a later rule
\* (stable-ABI tag, universal, architecture, tag anywhere, any wheel) matches.
C11_BundledThenExactTag ==
    (sWhich = "main") =>
        \A r \in Returned :
            /\ (\E w \in sDir : BundledTagArch(w)) => (r # None /\ BundledTagArch(r))
            /\ (\E w \in sDir : ExactTagRule(w) /\ ~IsBundled(w)) => (r # None /\ ExactTagRule(r))

\* the scenario of three candidates: bundled and non-bundled for the tag and
\* the architecture, and one for another architecture
C11_Witness ==
    /\ sWhich = "main" /\ sVer = V3_12 /\ sArch = "arm64"
    /\ sDir = {WheelName(V3_12, "arm64", TRUE), WheelName(V3_12, "arm64", FALSE),
               WheelName(V3_12, "x86_64", FALSE)}
    /\ Len(sRets) = MaxSelectCalls
    /\ Returned = {WheelName(V3_12, "arm64", TRUE)}

\* C12: on an unchanged dist/, all calls of find_wheel with the same runtime
\* tag and architecture return the same path, whatever order the directory
\* yields its entries in.
C12_SameListingSamePath ==
    (sWhich = "main") => \A i, j \in 1..Len(sRets) : sRets[i] = sRets[j]

\* C13: among the archives the first pattern with a match matches, the result
\* is one whose name contains the runtime tag if there is one, and otherwise
\* the lexicographically first of them.
C13_ExactTagElseLexFirst ==
    \A r \in Returned :
        LET m == FirstMatches(PatternsOf(sWhich, sTag, sArch), sDir)
            e == {w \in m : Contains(w, sTag)}
        IN  /\ m = {} => r = None
            /\ e # {} => r \in e
            /\ (m # {} /\ e = {}) => (r \in m /\ \A w \in m : w = r \/ LexLess(r, w))

\* C14: when dist/ has an archive whose name carries the runtime tag, the
\* main pipeline's find_wheel never returns an archive that carries the
\* stable-ABI tag cp38 and not the runtime tag.
C14_NoStableAbiOverExactTag ==
    (sWhich = "main" /\ \E w \in sDir : Contains(w, sTag)) =>
        \A r \in Returned : ~(Contains(r, get_python_tag(V3_8)) /\ ~Contains(r, sTag))

\* C36: on every enumeration of dist/, find_wheel of the fallback pipeline
\* returns the same wheel as find_wheel of the main pipeline for the same
\* runtime tag and architecture.
C36_SelectorsAgree ==
    sRets # <<>> =>
        \A l \in Enumerations(sDir) :
            find_wheel_in("fallback", l, sVer, sArch) = find_wheel_in("main", l, sVer, sArch)

----------------------------------------------------------------------------
(* Properties of the search for the build directory (SpecMatch, Spec) *)

\* the build directories of d whose path embeds exactly version pv
DirsOfVersion(d, pv) ==
    {b \in d : \E pl \in BuildPlatforms, v \in LinkVersions : VersionStr(v) = pv /\ b = BuildDirOf(pl, v)}

NoDirForRuntime ==
    \A d \in GlobBuildDirs(skbuild) : ~Contains(d, <<"-">> \o VersionStr(runtime))

\* C16: when no build directory path contains "-" + the runtime version,
\* the search of main() leaves matching_dir at None and the run is over with
\* a non-zero exit code, nothing copied into the library directory and the
\* editable install not run.
C16_NoMatchAborts ==
    (entry = "main" /\ "match" \in stages /\ NoDirForRuntime) =>
        /\ matching_dir = None
        /\ Aborted
        /\ stages \cap {"copy", "copy_wrappers", "install_editable"} = {}
        /\ GlobSo(lib) = {}

C16_Witness ==
    /\ entry = "main" /\ "match" \in stages /\ NoDirForRuntime
    /\ GlobBuildDirs(skbuild) # {} /\ pvBound
    /\ outcome = "aborted" /\ exitCode = 1

----------------------------------------------------------------------------
(* Properties of bundle_dependencies (SpecBundle) *)

\* a call has ended and none is under way
BundleEnded == bPc = "idle" /\ bRets # <<>>
LastBundle == bRets[Len(bRets)]
\* how often the deps search path is among the LC_RPATH entries of a consumer
RpathCount(c) == Cardinality({i \in 1..Len(c.rpaths) : c.rpaths[i] = DepsRpath})

\* C17: after a call that returned True, every consumer library of the
\* wheel's payload has the search path @loader_path/deps exactly once, the
\* second call included.
C17_RpathExactlyOnce ==
    (BundleEnded /\ LastBundle = "True") =>
        \A n \in SoNames : RpathCount(wheel_file.payload.consumers[n]) = 1

\* C18: a call that finds none of the dependency files returns False and
\* leaves the wheel and the backup path (no backup created) as they were.
C18_NoSourcesNoChange ==
    (BundleEnded /\ bPrev.sources = {}) =>
        /\ LastBundle = "False"
        /\ wheel_file = bPrev.wheel
        /\ backup_file = bPrev.backup
        /\ temp_dir = NoTemp

C18_Witness ==
    /\ BundleEnded /\ bPrev.sources = {} /\ LastBundle = "False"
    /\ wheel_file.state = "complete" /\ backup_file = NoFile

\* C19: whenever the wheel is partially written, the backup path holds a
\* complete archive.
C19_PartialHasCompleteBackup ==
    wheel_file.state = "partial" => backup_file.state = "complete"

\* C20: a backup that exists when a call starts is never changed by it, and
\* once a call has returned True the backup holds what the wheel held before
\* the first call.
C20_BackupIsPristine ==
    /\ bPrev.backup.state # "absent" => backup_file = bPrev.backup
    /\ (\E i \in 1..Len(bRets) : bRets[i] = "True") => backup_file = bPristine

\* C25: a call that returned True had no failing install_name_tool -id: every
\* dependency it copied has the install name @loader_path/deps/<name>, set by
\* the first invocation (not left as built, not set by the second form).
C25_ToolFailureNeverSuccess ==
    (BundleEnded /\ LastBundle = "True") =>
        \A l \in existing_libs : wheel_file.payload.deps[l] = Dep("loader")

\* the dependencies in the deps directory of a wheel
DepsIn(w) == {l \in libs_to_bundle : w.payload.deps[l].present}
\* the last call started on a complete wheel with some but not all of the
\* dependency files present
SomeSourcesMissing ==
    /\ BundleEnded /\ bPrev.wheel.state = "complete"
    /\ bPrev.sources # {} /\ bPrev.sources # libs_to_bundle

----------------------------------------------------------------------------
(* Properties of fix_so_file and fix_wheel (SpecPatch) *)

\* a dependency table with a reference that names a runtime version
HasRuntimeRef(deps) == \E i \in 1..Len(deps) : deps[i] \in RuntimeRefs
\* a wheel none of whose libraries has such a reference
NothingToFix(w) ==
    w.state = "complete" /\ \A n \in SoNames : ~HasRuntimeRef(w.payload.consumers[n].deps)
FixEnded == gPc = "idle" /\ gRets # <<>>
LastFix == gRets[Len(gRets)]

\* C21: fix_so_file on a library without a version-specific runtime reference
\* returns False and rewrites nothing; a call of fix_wheel on a wheel of such
\* libraries never changes the wheel or the backup path and does not end at
\* the rewrite of line 88.
C21_NothingToFixNoWrite ==
    /\ [](\A n \in SoNames :
            (gLast[n].called /\ ~HasRuntimeRef(gLast[n].before)) =>
                (~gLast[n].changed /\ gLast[n].writes = 0 /\ gLast[n].deps = gLast[n].before))
    /\ [][(gPc # "idle" /\ NothingToFix(gPrev.wheel)) =>
            /\ wheel_file' = wheel_file
            /\ backup_file' = backup_file
            /\ (gPc' = "idle" => gRets'[Len(gRets')] # "fixed")]_vars

\* a second call, on the wheel the first call generalized, returned at line 67
C21_Witness ==
    /\ FixEnded /\ gRets = <<"fixed", "nochange">>
    /\ \A n \in SoNames : gLast[n].called /\ ~gLast[n].changed /\ gLast[n].before = <<RefSystem, RefGeneric>>
    /\ wheel_file = gPrev.wheel /\ backup_file = gPrev.backup

\* no call of either tool is in progress
ToolsIdle == bPc = "idle" /\ gPc = "idle"
\* a call of either tool is at the rewrite of the wheel (lines 144-149, resp. 81-86)
Repacking == bPc \in {"open", "write"} \/ gPc \in {"open", "write"}

\* C26: when no call is in progress no scratch directory exists, however the
\* calls ended; and no step outside the rewrite of the wheel changes the
\* wheel or the library directory, so a call that ends before the rewrite
\* leaves both as they were.
C26_ScratchDiscarded ==
    /\ [](ToolsIdle => temp_dir = NoTemp)
    /\ [][~Repacking => (wheel_file' = wheel_file /\ lib' = lib /\ libDirExists' = libDirExists)]_vars

\* a call of each tool ended by an exception before the rewrite: the scratch
\* directory is gone and the wheel is what it was
C26_Witness ==
    /\ ToolsIdle /\ bRets = <<"raised">> /\ gRets = <<"raised">>
    /\ temp_dir = NoTemp
    /\ wheel_file.state = "complete" /\ wheel_file = bPristine

\* C28: after fix_so_file returned, the library's dependency table holds no
\* reference that names a runtime version, and every entry that named none
\* is what it was.
C28_NoVersionedRefLeft ==
    \A n \in SoNames :
        (gLast[n].called /\ ~gLast[n].raised) =>
            /\ ~HasRuntimeRef(gLast[n].deps)
            /\ Len(gLast[n].deps) = Len(gLast[n].before)
            /\ \A i \in 1..Len(gLast[n].before) :
                 gLast[n].before[i] \notin RuntimeRefs => gLast[n].deps[i] = gLast[n].before[i]


\* C32: whenever neither tool is at work on the wheel and a complete backup
\* file exists, the backup holds the wheel as it was before the first call of
\* either tool.
C32_BackupStaysPristine ==
    (ToolsIdle /\ backup_file.state = "complete") => backup_file = bPristine


\* the runtime versions a library is verified against
ExpectedVersions == LinkVersions \cup {V3_8}
\* fix_so_file rewrote the one runtime reference of library n, a versioned
\* @rpath/libpython reference, in the last call of fix_wheel
OnlyRefRewritten(n) ==
    /\ gLast[n].called /\ gLast[n].changed /\ ~gLast[n].raised
    /\ Cardinality({i \in 1..Len(gLast[n].before) : gLast[n].before[i] \in RuntimeRefs}) = 1
    /\ ~HasRuntimeRef(gLast[n].deps)

\* C33: a library whose only runtime reference fix_so_file rewrote to
\* @rpath/Python is accepted by verify_so_python_version for every expected
\* version, whatever the inspection tool does, and never through the
\* wrong-version return (MISMATCH).
C33_GeneralizedIsAccepted ==
    \A n \in SoNames : OnlyRefRewritten(n) =>
        \A v \in ExpectedVersions, kind \in PipeToolKinds :
            LET r == verify_so_python_version(LibDirFile(n), gLast[n].deps, VersionStr(v), kind)
            IN  r.ret /\ VerificationResult(r) = "INCONCLUSIVE"
C33_Witness ==
    /\ FixEnded /\ gRets # <<>> /\ gRets[Len(gRets)] = "fixed"
    /\ \E n \in SoNames :
         /\ OnlyRefRewritten(n)
         /\ gLast[n].before = <<RefSystem, RefLibPython(V3_12)>>
         /\ gLast[n].deps = <<RefSystem, RefGeneric>>


----------------------------------------------------------------------------
(* Properties of patch_skbuild_constants.py (SpecConstants) *)

\* C39: a run of the tool on a file that the run before it patched leaves the
\* file as it was.
C39_SecondRunChangesNothing ==
    \A i \in 2..Len(kRets) :
        (i = Len(kRets) /\ kRets[i - 1] = "patched") => constants_py = kPrev

====
